---- MODULE Spec2Model ----
(***************************************************************************)
(* A model of sgaunet/supervisord: the per-child lifecycle engine, the     *)
(* Process Manager's bulk operations and the configuration reload diff.    *)
(*                                                                         *)
(* The Process, the Manager and the Supervisor facade are not among the    *)
(* source files; their definitions follow sections 4.1-4.3 and 5 of the    *)
(* specification.  Signal delivery (signals.Kill), the string-array helper *)
(* (util.Sub), the configuration entries and their accessors (config.Entry,*)
(* config.Config), Config.Load and the templates (StringExpression.Eval)   *)
(* follow the source.                                                      *)
(***************************************************************************)
EXTENDS Integers, Sequences, FiniteSets, TLC

(***************************************************************************)
(* Bounds and value sets                                                   *)
(***************************************************************************)
\* largest startretries a program is configured with
MaxRetries == 3
\* accepted start() commands per Process (operator or autostart)
MaxStarts == 2
\* most programs in a Config that is reloaded
MaxPrograms == 2
\* largest numprocs of a program section that is loaded
MaxNumProcs == 2
\* most pieces (texts and templates) of a string that is evaluated
MaxPieces == 4
\* most times the server loop of main starts over after a restart command
MaxServerRestarts == 2
\* most payloads written to one logger
MaxWrites == 3

\* exit statuses a child reports on its own
ExitStatuses == {0, 2}
\* exit status recorded for a child that died of SIGKILL
KilledStatus == 137
\* exit status of a Process that has not exited yet
NoStatus == -1

\* program names, as the characters of the string
ProgA == <<"a">>
ProgB == <<"b">>
ProgC == <<"c">>
Names == {ProgA, ProgB, ProgC}

States ==
    {"Stopped", "Starting", "Running", "Backoff", "Stopping", "Exited",
     "Fatal", "Unknown"}

\* the per-program keys the lifecycle engine reads (section 4.1, section 6);
\* exitcodes is read only when autorestart is "unexpected"
ProgramConfigs ==
    {c \in [startsecs    : {0, 1},
            startretries : 0..MaxRetries,
            autorestart  : {"false", "true", "unexpected"},
            exitcodes    : {{0}, {0, 2}},
            stopsignal   : {"TERM", "INT"},
            stopasgroup  : BOOLEAN,
            killasgroup  : BOOLEAN] :
        c.autorestart # "unexpected" => c.exitcodes = {0}}

VARIABLES
    procs,    \* the Manager's registry: program name -> Process
    reply,    \* the outcome of the last operator command
    config,   \* the Supervisor's in-memory Config
    bulk,     \* the bulk operation in progress and what it has yet to dispatch
    workers,  \* dispatched per-Process workers that have not made their call
    issued,   \* program names in the order the bulk operation dispatched them
    called,   \* program names in the order the bulk workers made their calls
    reload,   \* the Reload in progress, or the last one: its Configs and diff
    result,   \* the (added, changed, removed) triple the last Reload returned
    input,    \* the arguments of the configuration call under check
    output    \* what that call returned, once it has returned

vars ==
    <<procs, reply, config, bulk, workers, issued, called, reload, result,
      input, output>>

\* the variables of a configuration call
callVars == <<input, output>>

\* the variables of a Reload
reloadVars == <<reload, result>>

\* everything but the Processes and the outcome of the last command
facadeVars ==
    <<config, bulk, workers, issued, called, reload, result, input, output>>

NoReply == [op |-> "none", name |-> <<>>, res |-> "", from |-> ""]

\* A Process as the Manager admits it (section 3, Lifecycle).
NewProcess(c) ==
    [state      |-> "Stopped",
     pid        |-> 0,
     retry      |-> 0,
     exitstatus |-> NoStatus,
     sigs       |-> <<>>,
     starts     |-> 0,
     config     |-> c]

(***************************************************************************)
(* signals.Kill: the pid a signal is sent to                               *)
(***************************************************************************)
KillNoGroup(pid, sigChildren) == pid

Kill(pid, sigChildren) == IF sigChildren THEN -pid ELSE pid

(***************************************************************************)
(* Process: pure decisions of the state machine (section 4.1)              *)
(***************************************************************************)
StartAcceptsAlways(st) == st \in {"Stopped", "Exited", "Fatal", "Running"}

\* start() spawns from these states
StartAccepts(st) == st \in {"Stopped", "Exited", "Fatal"}

StopAcceptsExited(st) == st \in {"Running", "Starting", "Backoff", "Exited"}

\* stop() moves these states to Stopping
StopAccepts(st) == st \in {"Running", "Starting", "Backoff"}

StopAbsorbsNothing(st) == FALSE

\* stop() on a Process already in Stopping is absorbed
StopAbsorbs(st) == st = "Stopping"

ExitTransitionInverted(st, autorestart, status, exitcodes) ==
    CASE st = "Starting" -> "Backoff"
      [] st = "Stopping" -> "Stopped"
      [] st = "Running" /\ autorestart = "false" -> "Exited"
      [] st = "Running" /\ autorestart = "true" -> "Starting"
      [] st = "Running" /\ autorestart = "unexpected" ->
            IF status \in exitcodes THEN "Starting" ELSE "Exited"
      [] OTHER -> st

\* exit classification: the state after the child of a Process in st exits
ExitTransition(st, autorestart, status, exitcodes) ==
    CASE st = "Starting" -> "Backoff"
      [] st = "Stopping" -> "Stopped"
      [] st = "Running" /\ autorestart = "false" -> "Exited"
      [] st = "Running" /\ autorestart = "true" -> "Starting"
      [] st = "Running" /\ autorestart = "unexpected" ->
            IF status \in exitcodes THEN "Exited" ELSE "Starting"
      [] OTHER -> st

BackoffTargetOffByOne(retry, startretries) ==
    IF retry >= startretries THEN "Fatal" ELSE "Starting"

\* Backoff: retry while the restart count is within startretries, else give up
BackoffTarget(retry, startretries) ==
    IF retry > startretries THEN "Fatal" ELSE "Starting"

RunningRetryKept(retry) == retry

\* the restart count of a Process that enters Running
RunningRetry(retry) == 0

(***************************************************************************)
(* Process: operations.  Each is an action on one entry of procs.          *)
(***************************************************************************)
\* pids the OS can hand out: one per managed Process and a spare one
Pids == 1..(Cardinality(DOMAIN procs) + 1)

FreePids == Pids \ {procs[q].pid : q \in DOMAIN procs}

\* start(): Stopped/Exited/Fatal -> Starting, the child is spawned next;
\* any other state is refused with AlreadyStarted and nothing changes.
DoStart(p) ==
    /\ p \in DOMAIN procs
    /\ IF StartAccepts(procs[p].state)
       THEN /\ procs[p].starts < MaxStarts
            /\ procs' = [procs EXCEPT ![p].state = "Starting",
                                      ![p].starts = @ + 1]
            /\ reply' = [op |-> "start", name |-> p, res |-> "Ok",
                         from |-> procs[p].state]
       ELSE /\ procs' = procs
            /\ reply' = [op |-> "start", name |-> p, res |-> "AlreadyStarted",
                         from |-> procs[p].state]

\* an operator's (or autostart's) start() on its own
Start(p) == DoStart(p) /\ UNCHANGED facadeVars

\* Spawn succeeded with pid n: the pid is stored; startsecs = 0 disables the
\* Starting -> Running gate.
SpawnAs(p, n) ==
    /\ p \in DOMAIN procs
    /\ procs[p].state = "Starting"
    /\ procs[p].pid = 0
    /\ n \in FreePids
    /\   procs' = [procs EXCEPT
                     ![p].pid = n,
                     ![p].sigs = <<>>,
                     ![p].exitstatus = NoStatus,
                     ![p].state =
                        IF procs[p].config.startsecs = 0 THEN "Running" ELSE @,
                     ![p].retry =
                        IF procs[p].config.startsecs = 0
                        THEN RunningRetry(@) ELSE @]
    /\ UNCHANGED <<reply, facadeVars>>

SpawnOk(p) == \E n \in Pids : SpawnAs(p, n)

\* Spawn failed (fork/exec): Backoff, counted as a failed attempt, SpawnError.
SpawnFail(p) ==
    /\ p \in DOMAIN procs
    /\ procs[p].state = "Starting"
    /\ procs[p].pid = 0
    /\ procs' = [procs EXCEPT ![p].state = "Backoff", ![p].retry = @ + 1]
    /\ reply' = [op |-> "spawn", name |-> p, res |-> "SpawnError",
                 from |-> "Starting"]
    /\ UNCHANGED facadeVars

\* The start-policy clock: the child stayed alive for startsecs.
BecomeRunning(p) ==
    /\ p \in DOMAIN procs
    /\ procs[p].state = "Starting"
    /\ procs[p].pid > 0
    /\ procs' = [procs EXCEPT ![p].state = "Running",
                              ![p].retry = RunningRetry(@)]
    /\ UNCHANGED <<reply, facadeVars>>

\* The monitoring routine: the OS reported the exit of the child.
OnExit(p, status) ==
    LET P  == procs[p]
        to == ExitTransition(P.state, P.config.autorestart, status,
                             P.config.exitcodes)
    IN  procs' = [procs EXCEPT
                    ![p].state = to,
                    ![p].pid = 0,
                    ![p].exitstatus = status,
                    ![p].retry = IF P.state = "Starting" THEN @ + 1 ELSE @]

\* The child exits on its own (also in answer to a stop signal).
ChildExit(p) ==
    /\ p \in DOMAIN procs
    /\ procs[p].pid > 0
    /\ \E status \in ExitStatuses : OnExit(p, status)
    /\ UNCHANGED <<reply, facadeVars>>

\* The child dies of the SIGKILL it was sent.
KilledExit(p) ==
    /\ p \in DOMAIN procs
    /\ procs[p].pid > 0
    /\ \E i \in 1..Len(procs[p].sigs) : procs[p].sigs[i].sig = "KILL"
    /\ OnExit(p, KilledStatus)
    /\ UNCHANGED <<reply, facadeVars>>

\* The backoff interval elapsed: retry or give up.
BackoffDecide(p) ==
    /\ p \in DOMAIN procs
    /\ procs[p].state = "Backoff"
    /\ procs' = [procs EXCEPT
                   ![p].state = BackoffTarget(procs[p].retry,
                                              procs[p].config.startretries)]
    /\ UNCHANGED <<reply, facadeVars>>

\* stop(): Running/Starting/Backoff -> Stopping, stopsignal to a live child;
\* Stopping absorbs the call; Stopped/Exited/Fatal answer NotRunning.
DoStop(p) ==
    /\ p \in DOMAIN procs
    /\ LET P == procs[p] IN
       IF StopAccepts(P.state)
       THEN /\ procs' = [procs EXCEPT
                           ![p].state = "Stopping",
                           ![p].sigs =
                              IF P.pid > 0
                              THEN Append(@, [to  |-> Kill(P.pid, P.config.stopasgroup),
                                              sig |-> P.config.stopsignal])
                              ELSE @]
            /\ reply' = [op |-> "stop", name |-> p, res |-> "Ok",
                         from |-> P.state]
       ELSE /\ procs' = procs
            /\ reply' = [op |-> "stop", name |-> p,
                         res |-> IF StopAbsorbs(P.state) THEN "Ok" ELSE "NotRunning",
                         from |-> P.state]

\* an operator's stop() on its own
Stop(p) == DoStop(p) /\ UNCHANGED facadeVars

\* stopwaitsecs elapsed with the child still alive: SIGKILL.
StopTimeout(p) ==
    /\ p \in DOMAIN procs
    /\ procs[p].state = "Stopping"
    /\ procs[p].pid > 0
    /\ \A i \in 1..Len(procs[p].sigs) : procs[p].sigs[i].sig # "KILL"
    /\ procs' = [procs EXCEPT
                   ![p].sigs = Append(@, [to  |-> Kill(procs[p].pid,
                                                      procs[p].config.killasgroup),
                                          sig |-> "KILL"])]
    /\ UNCHANGED <<reply, facadeVars>>

\* Stopping without a child (stop() cancelled a backoff wait or a pending
\* spawn): the monitoring routine ends in Stopped.
FinishStop(p) ==
    /\ p \in DOMAIN procs
    /\ procs[p].state = "Stopping"
    /\ procs[p].pid = 0
    /\ procs' = [procs EXCEPT ![p].state = "Stopped"]
    /\ UNCHANGED <<reply, facadeVars>>

(***************************************************************************)
(* Spec: one Process under operator commands, child exits and timers       *)
(***************************************************************************)
\* no Config loaded, no bulk operation
NoReload ==
    [active |-> FALSE,
     prev |-> [entries |-> <<>>, ProgramGroup |-> <<>>],
     new |-> [entries |-> <<>>, ProgramGroup |-> <<>>],
     added |-> <<>>, changed |-> <<>>, removed |-> <<>>,
     loadFailed |-> FALSE, err |-> "nil"]

NoResult == [added |-> <<>>, changed |-> <<>>, removed |-> <<>>, returned |-> FALSE]

NoCall == [fn |-> "none"]

IdleFacade ==
    /\ config = [entries |-> <<>>, ProgramGroup |-> <<>>]
    /\ bulk = [kind |-> "none", queue |-> <<>>]
    /\ workers = {}
    /\ issued = <<>>
    /\ called = <<>>
    /\ reload = NoReload
    /\ result = NoResult
    /\ input = NoCall
    /\ output = NoCall

Init ==
    /\ \E c \in ProgramConfigs : procs = [n \in {ProgA} |-> NewProcess(c)]
    /\ reply = NoReply
    /\ IdleFacade

Next ==
    \/ \E p \in Names : Start(p)
    \/ \E p \in Names : SpawnOk(p)
    \/ \E p \in Names : SpawnFail(p)
    \/ \E p \in Names : BecomeRunning(p)
    \/ \E p \in Names : ChildExit(p)
    \/ \E p \in Names : KilledExit(p)
    \/ \E p \in Names : BackoffDecide(p)
    \/ \E p \in Names : Stop(p)
    \/ \E p \in Names : StopTimeout(p)
    \/ \E p \in Names : FinishStop(p)

Spec == Init /\ [][Next]_vars

\* What the monitoring routine and the timers of a Process always get to do:
\* a pending spawn completes, the backoff and stop timers fire, a child sent
\* SIGKILL dies.  Operator commands and voluntary exits are not forced.
MonitorFairness ==
    \A p \in Names :
        /\ WF_vars(SpawnOk(p) \/ SpawnFail(p))
        /\ WF_vars(BackoffDecide(p))
        /\ WF_vars(StopTimeout(p))
        /\ WF_vars(KilledExit(p))
        /\ WF_vars(FinishStop(p))

FairSpec == Spec /\ MonitorFairness

(***************************************************************************)
(* FlakySpec: a program whose child always exits before startsecs, and an  *)
(* operator who only starts it                                             *)
(***************************************************************************)
FlakyInit ==
    /\ \E c \in ProgramConfigs :
         /\ c.startsecs > 0
         /\ procs = [n \in {ProgA} |-> NewProcess(c)]
    /\ reply = NoReply
    /\ IdleFacade

FlakyNext ==
    \/ \E p \in Names : Start(p)
    \/ \E p \in Names : SpawnOk(p)
    \/ \E p \in Names : SpawnFail(p)
    \/ \E p \in Names : ChildExit(p)
    \/ \E p \in Names : BackoffDecide(p)

FlakySpec ==
    /\ FlakyInit
    /\ [][FlakyNext]_vars
    /\ \A p \in Names :
         /\ WF_vars(SpawnOk(p) \/ SpawnFail(p))
         /\ WF_vars(ChildExit(p))
         /\ WF_vars(BackoffDecide(p))

(***************************************************************************)
(* config.Entry and config.Config.  A string is the sequence of its        *)
(* characters; an Entry is [Name, keyValues]; a Config is [entries], the   *)
(* map from the entry's key to the Entry.                                   *)
(***************************************************************************)
ProgramPrefix == <<"p", "r", "o", "g", "r", "a", "m", ":">>
KeyCommand == <<"c", "o", "m", "m", "a", "n", "d">>
KeyPriority == <<"p", "r", "i", "o", "r", "i", "t", "y">>
KeyProcessName == <<"p", "r", "o", "c", "e", "s", "s", "_", "n", "a", "m", "e">>

\* strings.HasPrefix
HasPrefix(s, prefix) ==
    Len(s) >= Len(prefix) /\ SubSeq(s, 1, Len(prefix)) = prefix

IsProgram(entry) == HasPrefix(entry.Name, ProgramPrefix)

GetProgramName(entry) ==
    IF HasPrefix(entry.Name, ProgramPrefix)
    THEN SubSeq(entry.Name, Len(ProgramPrefix) + 1, Len(entry.Name))
    ELSE <<>>

DigitChars == {"0", "1", "2", "3", "4", "5", "6", "7", "8", "9"}

DigitValue(ch) ==
    CASE ch = "0" -> 0 [] ch = "1" -> 1 [] ch = "2" -> 2 [] ch = "3" -> 3
      [] ch = "4" -> 4 [] ch = "5" -> 5 [] ch = "6" -> 6 [] ch = "7" -> 7
      [] ch = "8" -> 8 [] ch = "9" -> 9

\* the digits of s read as a decimal number
RECURSIVE DecimalValue(_)
DecimalValue(s) ==
    IF s = <<>> THEN 0
    ELSE 10 * DecimalValue(SubSeq(s, 1, Len(s) - 1)) + DigitValue(s[Len(s)])

\* strconv.Atoi succeeds on an optional sign followed by digits
AtoiOk(s) ==
    LET digits == IF s # <<>> /\ Head(s) \in {"+", "-"} THEN Tail(s) ELSE s
    IN  digits # <<>> /\ \A i \in 1..Len(digits) : digits[i] \in DigitChars

Atoi(s) ==
    IF Head(s) = "-" THEN 0 - DecimalValue(Tail(s))
    ELSE IF Head(s) = "+" THEN DecimalValue(Tail(s))
    ELSE DecimalValue(s)

\* the factor forgotten
toIntUnscaled(s, factor, defValue) == IF AtoiOk(s) THEN Atoi(s) ELSE defValue

toInt(s, factor, defValue) == IF AtoiOk(s) THEN Atoi(s) * factor ELSE defValue

GetInt(entry, key, defValue) ==
    IF key \in DOMAIN entry.keyValues
    THEN toInt(entry.keyValues[key], 1, defValue)
    ELSE defValue

\* Entry.GetBytes
GetBytes(entry, key, defValue) ==
    IF key \in DOMAIN entry.keyValues
    THEN LET v == entry.keyValues[key]
             suffixLen == 2
             lastTwoBytes == SubSeq(v, Len(v) - suffixLen + 1, Len(v))
             number == SubSeq(v, 1, Len(v) - suffixLen)
         IN  IF Len(v) > suffixLen /\ lastTwoBytes = <<"M", "B">>
             THEN toInt(number, 1024 * 1024, defValue)
             ELSE IF Len(v) > suffixLen /\ lastTwoBytes = <<"G", "B">>
             THEN toInt(number, 1024 * 1024 * 1024, defValue)
             ELSE IF Len(v) > suffixLen /\ lastTwoBytes = <<"K", "B">>
             THEN toInt(number, 1024, defValue)
             ELSE toInt(v, 1, defValue)
    ELSE defValue

\* the orders in which a range over a Go map can visit the elements of S
MapOrders(S) ==
    {order \in [1..Cardinality(S) -> S] :
        \A x \in S : \E i \in 1..Cardinality(S) : order[i] = x}

\* GetEntries ranges over the entries map: every visiting order is a result
GetEntries(c, filterFunc) ==
    MapOrders({c.entries[k] : k \in {j \in DOMAIN c.entries :
                                        filterFunc[c.entries[j]]}})

\* the filter of GetPrograms, as a function on the entries of c
IsProgramFilter(c) ==
    [entry \in {c.entries[k] : k \in DOMAIN c.entries} |-> IsProgram(entry)]

\* the byte of a character of a program name
Ord(ch) ==
    CASE ch = "a" -> 97 [] ch = "b" -> 98 [] ch = "c" -> 99 [] OTHER -> 0

\* Go's < on strings
RECURSIVE StringLess(_, _)
StringLess(s, t) ==
    IF t = <<>> THEN FALSE
    ELSE IF s = <<>> THEN TRUE
    ELSE IF Ord(Head(s)) # Ord(Head(t)) THEN Ord(Head(s)) < Ord(Head(t))
    ELSE StringLess(Tail(s), Tail(t))

\* the priority of a program that sets none
DefaultPriority == 999

PriorityOf(entry) == GetInt(entry, KeyPriority, DefaultPriority)

\* the order of section 4.2: priority ascending, ties broken by name
ProgramLess(e1, e2) ==
    \/ PriorityOf(e1) < PriorityOf(e2)
    \/ /\ PriorityOf(e1) = PriorityOf(e2)
       /\ StringLess(GetProgramName(e1), GetProgramName(e2))

RECURSIVE InsertProgram(_, _)
InsertProgram(e, sorted) ==
    IF sorted = <<>> THEN <<e>>
    ELSE IF ProgramLess(e, Head(sorted)) THEN <<e>> \o sorted
    ELSE <<Head(sorted)>> \o InsertProgram(e, Tail(sorted))

RECURSIVE sortProgram(_)
sortProgram(programs) ==
    IF programs = <<>> THEN <<>>
    ELSE InsertProgram(Head(programs), sortProgram(Tail(programs)))

GetProgramsUnsorted(c) == GetEntries(c, IsProgramFilter(c))

\* Config.GetPrograms: the program entries, sorted; one result for every
\* order in which the entries map was visited
GetPrograms(c) ==
    {sortProgram(programs) : programs \in GetEntries(c, IsProgramFilter(c))}

\* Config.GetProgram: the first program entry of that name the range meets
GetProgram(c, name) ==
    {c.entries[k] : k \in {j \in DOMAIN c.entries :
                               /\ IsProgram(c.entries[j])
                               /\ GetProgramName(c.entries[j]) = name}}

RECURSIVE Concat(_)
Concat(strings) ==
    IF strings = <<>> THEN <<>> ELSE Head(strings) \o Concat(Tail(strings))

\* Entry.String writes "key=value\n" for every pair the range over keyValues
\* visits: one string for every visiting order
String(entry) ==
    {Concat([i \in 1..Len(order) |->
                order[i] \o <<"=">> \o entry.keyValues[order[i]] \o <<"\n">>]) :
        order \in MapOrders(DOMAIN entry.keyValues)}

\* Config.GetProgramNames
GetProgramNames(c) ==
    {[i \in 1..Len(programs) |-> GetProgramName(sortProgram(programs)[i])] :
        programs \in GetPrograms(c)}

(***************************************************************************)
(* Manager: bulk start and stop (section 4.2).  The Manager walks the      *)
(* programs in priority order, hands each Process to a worker of its own   *)
(* and waits for all the workers.                                          *)
(***************************************************************************)
Reverse(s) == [i \in 1..Len(s) |-> s[Len(s) + 1 - i]]

ProgramNamesOf(programs) ==
    [i \in 1..Len(programs) |-> GetProgramName(programs[i])]

\* bulk start: priority ascending
StartAllProcesses ==
    /\ bulk.kind = "none"
    /\ \E programs \in GetPrograms(config) :
         bulk' = [kind |-> "start", queue |-> ProgramNamesOf(programs)]
    /\ issued' = <<>>
    /\ called' = <<>>
    /\ UNCHANGED <<procs, reply, config, workers, reloadVars, callVars>>

\* bulk stop: priority descending
StopAllProcesses ==
    /\ bulk.kind = "none"
    /\ \E programs \in GetPrograms(config) :
         bulk' = [kind |-> "stop", queue |-> Reverse(ProgramNamesOf(programs))]
    /\ issued' = <<>>
    /\ called' = <<>>
    /\ UNCHANGED <<procs, reply, config, workers, reloadVars, callVars>>

\* the bulk operation hands the next Process to a worker
Dispatch ==
    /\ bulk.queue # <<>>
    /\ workers' = workers \cup {[name |-> Head(bulk.queue), kind |-> bulk.kind]}
    /\ issued' = Append(issued, Head(bulk.queue))
    /\ bulk' = [bulk EXCEPT !.queue = Tail(@)]
    /\ UNCHANGED <<procs, reply, config, called, reloadVars, callVars>>

\* a worker makes its start() or stop() call
WorkerRun(p) ==
    /\ \E w \in workers :
         /\ w.name = p
         /\ IF w.kind = "start" THEN DoStart(p) ELSE DoStop(p)
         /\ workers' = workers \ {w}
    /\ called' = IF bulk.kind = "none" THEN called ELSE Append(called, p)
    /\ UNCHANGED <<config, bulk, issued, reloadVars, callVars>>

\* the bulk operation returns when every worker has completed
WaitWorkers ==
    /\ bulk.kind # "none"
    /\ bulk.queue = <<>>
    /\ workers = {}
    /\ bulk' = [kind |-> "none", queue |-> <<>>]
    /\ UNCHANGED <<procs, reply, config, workers, issued, called, reloadVars, callVars>>

\* the OS hands out the lowest free pid
SpawnNext(p) ==
    \E n \in FreePids : (\A m \in FreePids : n <= m) /\ SpawnAs(p, n)

\* a program entry as parse leaves it under its program name
ProgramEntry(name, kv) ==
    [Name |-> ProgramPrefix \o name,
     Group |-> name,
     keyValues |-> kv @@ (KeyProcessName :> name)]

CommandOnly == (KeyCommand :> <<"x">>)

WithPriority(pr) == (KeyCommand :> <<"x">>) @@ (KeyPriority :> pr)

\* three programs: a and b set a priority of 5 or 10, c sets 5 or none
BulkConfigs ==
    {[entries |-> (ProgA :> ProgramEntry(ProgA, WithPriority(pa)))
               @@ (ProgB :> ProgramEntry(ProgB, WithPriority(pb)))
               @@ (ProgC :> ProgramEntry(ProgC, kc)),
      ProgramGroup |-> <<>>] :
        pa \in {<<"5">>, <<"1", "0">>},
        pb \in {<<"5">>, <<"1", "0">>},
        kc \in {WithPriority(<<"5">>), CommandOnly}}

\* the lifecycle keys of the programs of a bulk operation
BulkProgramConfig ==
    [startsecs |-> 0, startretries |-> 0, autorestart |-> "false",
     exitcodes |-> {0}, stopsignal |-> "TERM", stopasgroup |-> FALSE,
     killasgroup |-> FALSE]

ManagerInit ==
    /\ config \in BulkConfigs
    /\ procs = [n \in Names |-> NewProcess(BulkProgramConfig)]
    /\ reply = NoReply
    /\ bulk = [kind |-> "none", queue |-> <<>>]
    /\ workers = {}
    /\ issued = <<>>
    /\ called = <<>>
    /\ reload = NoReload
    /\ result = NoResult
    /\ input = NoCall
    /\ output = NoCall

ManagerNext ==
    \/ StartAllProcesses
    \/ StopAllProcesses
    \/ Dispatch
    \/ \E p \in Names : WorkerRun(p)
    \/ WaitWorkers
    \/ \E p \in Names : SpawnNext(p)

\* bulk operations over children that outlive them
ManagerSpec == ManagerInit /\ [][ManagerNext]_vars

(***************************************************************************)
(* util: string arrays                                                     *)
(***************************************************************************)
\* slices.Contains
Contains(arr, s) == \E i \in 1..Len(arr) : arr[i] = s

\* util.Sub: the elements of arr1 that are not in arr2, in arr1's order
RECURSIVE Sub(_, _)
Sub(arr1, arr2) ==
    IF arr1 = <<>> THEN <<>>
    ELSE (IF ~Contains(arr2, Head(arr1)) THEN <<Head(arr1)>> ELSE <<>>)
         \o Sub(Tail(arr1), arr2)

(***************************************************************************)
(* StringExpression: templates.  Indices are those of the Go code: the     *)
(* first byte of a string has index 0 and s[a:b] ends before index b.      *)
(***************************************************************************)
Letters ==
    {"a", "b", "c", "d", "e", "f", "g", "h", "i", "j", "k", "l", "m", "n",
     "o", "p", "q", "r", "s", "t", "u", "v", "w", "x", "y", "z",
     "A", "B", "C", "D", "E", "F", "G", "H", "I", "J", "K", "L", "M", "N",
     "O", "P", "Q", "R", "S", "T", "U", "V", "W", "X", "Y", "Z"}

\* s[i]
At(s, i) == s[i + 1]

\* s[a:b]
Slice(s, a, b) == SubSeq(s, a + 1, b)

\* strings.Index
Index(s, sub) ==
    LET hits == {i \in 0..(Len(s) - Len(sub)) : Slice(s, i, i + Len(sub)) = sub}
    IN  IF hits = {} THEN -1
        ELSE CHOOSE i \in hits : \A j \in hits : i <= j

DigitChar(d) ==
    CASE d = 0 -> "0" [] d = 1 -> "1" [] d = 2 -> "2" [] d = 3 -> "3"
      [] d = 4 -> "4" [] d = 5 -> "5" [] d = 6 -> "6" [] d = 7 -> "7"
      [] d = 8 -> "8" [] d = 9 -> "9"

\* the decimal digits of a natural number
RECURSIVE DecimalDigits(_)
DecimalDigits(n) ==
    IF n < 10 THEN <<DigitChar(n)>>
    ELSE DecimalDigits(n \div 10) \o <<DigitChar(n % 10)>>

\* strconv.Itoa
Itoa(i) == IF i < 0 THEN <<"-">> \o DecimalDigits(0 - i) ELSE DecimalDigits(i)

\* n copies of ch
Repeat(ch, n) == [i \in 1..n |-> ch]

\* the flags of a printf verb: its leading '0', '-', '+' and ' ' characters
RECURSIVE VerbFlags(_)
VerbFlags(verb) ==
    IF verb # <<>> /\ Head(verb) \in {"0", "-", "+", " "}
    THEN <<Head(verb)>> \o VerbFlags(Tail(verb))
    ELSE <<>>

\* fmt.Sprintf("%" + verb + "d", i) for a verb made of flags and a width
SprintfInt(verb, i) ==
    LET flags  == VerbFlags(verb)
        has(f) == \E k \in 1..Len(flags) : flags[k] = f
        width  == DecimalValue(SubSeq(verb, Len(flags) + 1, Len(verb)))
        sign   == IF i < 0 THEN <<"-">>
                  ELSE IF has("+") THEN <<"+">>
                  ELSE IF has(" ") THEN <<" ">>
                  ELSE <<>>
        digits == DecimalDigits(IF i < 0 THEN 0 - i ELSE i)
        pad    == IF width > Len(sign) + Len(digits)
                  THEN width - Len(sign) - Len(digits) ELSE 0
    IN  IF has("-") THEN sign \o digits \o Repeat(" ", pad)
        ELSE IF has("0") THEN sign \o Repeat("0", pad) \o digits
        ELSE Repeat(" ", pad) \o sign \o digits

\* Eval: the index of the ')' that ends the variable, or len(s)
RECURSIVE FindEnd(_, _)
FindEnd(s, end) ==
    IF end < Len(s) /\ At(s, end) # ")" THEN FindEnd(s, end + 1) ELSE end

\* Eval: the index of the letter that gives the type, or at least len(s)
RECURSIVE FindTyp(_, _)
FindTyp(s, typ) ==
    IF typ < Len(s) /\ At(s, typ) \notin Letters THEN FindTyp(s, typ + 1)
    ELSE typ

EvalOk(s) == [s |-> s, err |-> "nil"]

EvalError(err) == [s |-> <<>>, err |-> err]

\* the element of a one-element set; {e(x) : x \in {v}} computes v once
TheOnly(S) == CHOOSE x \in S : TRUE

\* StringExpression.Eval with the environment env
RECURSIVE Eval(_, _)
Eval(env, s) ==
    LET start == Index(s, <<"%", "(">>)
        end   == FindEnd(s, start + 1)
        typ   == FindTyp(s, end + 1)
        n     == Len(s)
        varName == Slice(s, start + 2, end)
    IN  IF start = -1 THEN EvalOk(s)
        ELSE IF typ < n
        THEN IF varName \notin DOMAIN env THEN EvalError("EnvVarNotFound")
             ELSE IF At(s, typ) = "d"
             THEN IF ~AtoiOk(env[varName]) THEN EvalError("EnvVarConversion")
                  ELSE TheOnly({Eval(env, t) :
                          t \in {Slice(s, 0, start)
                                 \o SprintfInt(Slice(s, end + 1, typ),
                                               Atoi(env[varName]))
                                 \o Slice(s, typ + 1, n)}})
             ELSE IF At(s, typ) = "s"
             THEN TheOnly({Eval(env, t) :
                     t \in {Slice(s, 0, start) \o env[varName]
                            \o Slice(s, typ + 1, n)}})
             ELSE EvalError("TypeNotImplemented")
        ELSE EvalError("InvalidStringExpr")

(***************************************************************************)
(* Config.Load.  An ini file is the map from its section names to the      *)
(* key/value map of each section; the sections are visited in any order.   *)
(* A Config is [entries, ProgramGroup], ProgramGroup mapping a program     *)
(* name to its group.                                                      *)
(***************************************************************************)
GroupPrefix == <<"g", "r", "o", "u", "p", ":">>
EventListenerPrefix == <<"e", "v", "e", "n", "t", "l", "i", "s", "t", "e", "n", "e", "r", ":">>
ProgramDefaultName == <<"p", "r", "o", "g", "r", "a", "m", "-", "d", "e", "f", "a", "u", "l", "t">>
KeyNumprocs == <<"n", "u", "m", "p", "r", "o", "c", "s">>
KeyNumprocsStart == <<"n", "u", "m", "p", "r", "o", "c", "s", "_", "s", "t", "a", "r", "t">>
KeyProcessNum == <<"p", "r", "o", "c", "e", "s", "s", "_", "n", "u", "m">>
KeyPrograms == <<"p", "r", "o", "g", "r", "a", "m", "s">>
KeyEnvironment == <<"e", "n", "v", "i", "r", "o", "n", "m", "e", "n", "t">>

\* the directory of the configuration file
ConfigFileDir == <<"/", "e", "t", "c">>

\* os.Environ
OsEnviron == (<<"H", "O", "M", "E">> :> <<"/", "r", "o", "o", "t">>)

\* os.Hostname
Hostname == <<"n", "o", "d", "e">>

WhiteSpace == {" ", "\t", "\n"}

\* strings.TrimSpace
RECURSIVE TrimSpace(_)
TrimSpace(s) ==
    IF s = <<>> THEN s
    ELSE IF Head(s) \in WhiteSpace THEN TrimSpace(Tail(s))
    ELSE IF s[Len(s)] \in WhiteSpace THEN TrimSpace(SubSeq(s, 1, Len(s) - 1))
    ELSE s

\* strings.Split on a one-character separator
RECURSIVE Split(_, _)
Split(s, sep) ==
    LET i == Index(s, <<sep>>)
    IN  IF i = -1 THEN <<s>>
        ELSE <<Slice(s, 0, i)>> \o Split(Slice(s, i + 1, Len(s)), sep)

\* strings.Contains
StringContains(s, sub) == Index(s, sub) # -1

\* the first index from i on where s holds ch, or len(s)
RECURSIVE ScanTo(_, _, _)
ScanTo(s, i, ch) ==
    IF i < Len(s) /\ At(s, i) # ch THEN ScanTo(s, i + 1, ch) ELSE i

\* parseEnvValue: the value that starts at start, stored under key
parseEnvValue(s, start, n, key, parsed) ==
    IF At(s, start) = "\""
    THEN LET i == ScanTo(s, start + 1, "\"")
             stored == IF i < n
                       THEN (TrimSpace(key) :> TrimSpace(Slice(s, start + 1, i)))
                            @@ parsed
                       ELSE parsed
         IN  IF i + 1 < n /\ At(s, i + 1) = ","
             THEN [start |-> i + 2, continue |-> TRUE, parsed |-> stored]
             ELSE [start |-> i, continue |-> FALSE, parsed |-> stored]
    ELSE LET i == ScanTo(s, start, ",")
         IN  IF i < n
             THEN [start |-> i + 1, continue |-> TRUE,
                   parsed |-> (TrimSpace(key) :> TrimSpace(Slice(s, start, i)))
                              @@ parsed]
             ELSE [start |-> i, continue |-> FALSE,
                   parsed |-> (TrimSpace(key) :> TrimSpace(Slice(s, start, n)))
                              @@ parsed]

RECURSIVE parseEnvFrom(_, _, _)
parseEnvFrom(s, start, parsed) ==
    LET n == Len(s)
        i == ScanTo(s, start, "=")
        v == parseEnvValue(s, i + 1, n, Slice(s, start, i), parsed)
    IN  IF start >= n \/ i + 1 >= n THEN parsed
        ELSE IF v.continue THEN parseEnvFrom(s, v.start, v.parsed)
        ELSE v.parsed

\* parseEnv: A="x",B=y as a map
parseEnv(s) == parseEnvFrom(s, 0, <<>>)

\* NewStringExpression: the OS environment under ENV_, the given names, and
\* host_node_name
NewStringExpression(envs) ==
    (<<"h", "o", "s", "t", "_", "n", "o", "d", "e", "_", "n", "a", "m", "e">> :> Hostname)
    @@ envs
    @@ [k \in {<<"E", "N", "V", "_">> \o name : name \in DOMAIN OsEnviron} |->
           OsEnviron[SubSeq(k, Len(<<"E", "N", "V", "_">>) + 1, Len(k))]]

\* StringExpression.Add
StringExpressionAdd(env, key, value) == (key :> value) @@ env

\* ProcessGroup.GetGroup: the group of a program, or defValue
GetGroup(pg, program, defValue) ==
    IF program \in DOMAIN pg THEN pg[program] ELSE defValue

\* ProcessGroup.Add
ProcessGroupAdd(pg, group, program) == (program :> group) @@ pg

NewProcessGroup == <<>>

NewConfig == [entries |-> <<>>, ProgramGroup |-> NewProcessGroup]

NewEntry == [Name |-> <<>>, Group |-> <<>>, keyValues |-> <<>>]

\* Config.createEntry: a new entry under name unless there is one already
createEntry(c, name) ==
    IF name \in DOMAIN c.entries THEN c
    ELSE [c EXCEPT !.entries = (name :> NewEntry) @@ @]

\* Entry.parse: take the section's name and its trimmed values
EntryParse(entry, section) ==
    [entry EXCEPT
        !.Name = section.Name,
        !.keyValues = [k \in DOMAIN section.keys |-> TrimSpace(section.keys[k])]
                      @@ @]

\* section.Add
SectionAdd(section, key, value) ==
    [section EXCEPT !.keys = (key :> value) @@ @]

\* Config.setProgramDefaultParams: the ini with the defaults filled in
setProgramDefaultParams(cfg) ==
    IF ProgramDefaultName \in DOMAIN cfg
    THEN [name \in DOMAIN cfg |->
            IF name = ProgramDefaultName \/ ~HasPrefix(name, ProgramPrefix)
            THEN cfg[name]
            ELSE cfg[name] @@ cfg[ProgramDefaultName]]
    ELSE cfg

IsGroup(entry) == HasPrefix(entry.Name, GroupPrefix)

\* Entry.GetGroupName
GetGroupName(entry) ==
    IF HasPrefix(entry.Name, GroupPrefix)
    THEN SubSeq(entry.Name, Len(GroupPrefix) + 1, Len(entry.Name))
    ELSE <<>>

\* Entry.GetStringArray
GetStringArray(entry, key, sep) ==
    IF key \in DOMAIN entry.keyValues THEN Split(entry.keyValues[key], sep)
    ELSE <<>>

\* Entry.GetPrograms: the programs of a group entry
GetGroupPrograms(entry) ==
    IF IsGroup(entry)
    THEN LET r == GetStringArray(entry, KeyPrograms, ",")
         IN  [i \in 1..Len(r) |-> TrimSpace(r[i])]
    ELSE <<>>

RECURSIVE AddPrograms(_, _, _)
AddPrograms(pg, groupName, programs) ==
    IF programs = <<>> THEN pg
    ELSE AddPrograms(ProcessGroupAdd(pg, groupName, Head(programs)),
                     groupName, Tail(programs))

\* Config.parseGroup over the sections in the order names
RECURSIVE parseGroup(_, _, _)
parseGroup(c, cfg, names) ==
    IF names = <<>> THEN c
    ELSE IF ~HasPrefix(Head(names), GroupPrefix)
    THEN parseGroup(c, cfg, Tail(names))
    ELSE TheOnly({parseGroup(
                      [entries |-> (Head(names) :> entry) @@ c.entries,
                       ProgramGroup |-> AddPrograms(c.ProgramGroup,
                                                    GetGroupName(entry),
                                                    GetGroupPrograms(entry))],
                      cfg, Tail(names)) :
            entry \in {EntryParse(createEntry(c, Head(names)).entries[Head(names)],
                                  [Name |-> Head(names),
                                   keys |-> cfg[Head(names)]])}})

\* Config.isProgramOrEventListener: the prefix of the section, or ""
SectionPrefix(name) ==
    IF HasPrefix(name, ProgramPrefix) THEN ProgramPrefix
    ELSE IF HasPrefix(name, EventListenerPrefix) THEN EventListenerPrefix
    ELSE <<>>

\* validateProcessName: TRUE when it logs "no process_num in process name";
\* it returns nothing
validateProcessName(numProcs, procName, hasName) ==
    numProcs > 1 /\ (~hasName \/ ~StringContains(procName, <<"%", "(", "p", "r", "o", "c", "e", "s", "s", "_", "n", "u", "m", ")">>))

\* Config.createProcessEnvironment
createProcessEnvironment(c, programName, processNum, section) ==
    LET envs == NewStringExpression(
                    (<<"p", "r", "o", "g", "r", "a", "m", "_", "n", "a", "m", "e">> :> programName)
                    @@ (<<"p", "r", "o", "c", "e", "s", "s", "_", "n", "u", "m">> :> Itoa(processNum))
                    @@ (<<"g", "r", "o", "u", "p", "_", "n", "a", "m", "e">> :>
                           GetGroup(c.ProgramGroup, programName, programName))
                    @@ (<<"h", "e", "r", "e">> :> ConfigFileDir))
        added == IF KeyEnvironment \in DOMAIN section.keys
                 THEN parseEnv(section.keys[KeyEnvironment]) ELSE <<>>
    IN  [k \in {<<"E", "N", "V", "_">> \o name : name \in DOMAIN added} |->
            added[SubSeq(k, Len(<<"E", "N", "V", "_">>) + 1, Len(k))]]
        @@ envs

\* the group looked up under the name of the instance
createProgramEntryByInstance(c, section, prefix, procName, programName) ==
    LET entry == EntryParse(createEntry(c, procName).entries[procName], section)
    IN  [c EXCEPT !.entries =
            (procName :>
                [Name |-> prefix \o procName,
                 Group |-> GetGroup(c.ProgramGroup, procName, procName),
                 keyValues |-> entry.keyValues])
            @@ @]

\* Config.createProgramEntry
createProgramEntry(c, section, prefix, procName, programName) ==
    LET entry == EntryParse(createEntry(c, procName).entries[procName], section)
    IN  [c EXCEPT !.entries =
            (procName :>
                [Name |-> prefix \o procName,
                 Group |-> GetGroup(c.ProgramGroup, programName, programName),
                 keyValues |-> entry.keyValues])
            @@ @]

\* parseProgram: instance i of a section, its command cmd and its name
\* procName evaluated
ExpandInstance(c, section, prefix, programName, i, cmd, procName) ==
    LET withCmd == SectionAdd(section, KeyCommand, cmd.s)
        full == SectionAdd(SectionAdd(SectionAdd(withCmd,
                    KeyProcessName, procName.s),
                    KeyNumprocsStart, Itoa(i - 1)),
                    KeyProcessNum, Itoa(i))
    IN  IF cmd.err # "nil"
        THEN [config |-> c, section |-> section, loaded |-> <<>>]
        ELSE IF procName.err # "nil"
        THEN [config |-> c, section |-> withCmd, loaded |-> <<>>]
        ELSE [config |-> createProgramEntry(c, full, prefix, procName.s,
                                            programName),
              section |-> full,
              loaded |-> <<procName.s>>]

\* parseProgram: the instances i..numProcs of one section
RECURSIVE ExpandSection(_, _, _, _, _, _, _, _, _)
ExpandSection(c, section, prefix, programName, originalProcName, originalCmd, i, numProcs, loadedPrograms) ==
    IF i > numProcs THEN [config |-> c, loadedPrograms |-> loadedPrograms]
    ELSE TheOnly({TheOnly({
            ExpandSection(r.config, r.section, prefix, programName,
                          originalProcName, originalCmd, i + 1, numProcs,
                          loadedPrograms \o r.loaded) :
            r \in {ExpandInstance(c, section, prefix, programName, i,
                                  Eval(envs, originalCmd),
                                  Eval(envs, originalProcName))}}) :
         envs \in {createProcessEnvironment(c, programName, i, section)}})

\* every section taken for a single instance
SectionNumProcsOne(section) == 1

\* section.GetInt("numprocs"), 1 when it fails
SectionNumProcs(section) ==
    IF KeyNumprocs \in DOMAIN section.keys /\ AtoiOk(section.keys[KeyNumprocs])
    THEN Atoi(section.keys[KeyNumprocs])
    ELSE 1

\* Config.parseProgram over the sections in the order names
RECURSIVE parseProgram(_, _, _, _)
parseProgram(c, cfg, names, loadedPrograms) ==
    IF names = <<>> THEN [config |-> c, loadedPrograms |-> loadedPrograms]
    ELSE IF SectionPrefix(Head(names)) = <<>>
    THEN parseProgram(c, cfg, Tail(names), loadedPrograms)
    ELSE LET section == [Name |-> Head(names), keys |-> cfg[Head(names)]]
             prefix == SectionPrefix(Head(names))
             programName == SubSeq(Head(names), Len(prefix) + 1, Len(Head(names)))
             hasName == KeyProcessName \in DOMAIN section.keys
             originalProcName == IF hasName THEN section.keys[KeyProcessName]
                                 ELSE programName
             originalCmd == IF KeyCommand \in DOMAIN section.keys
                            THEN section.keys[KeyCommand] ELSE <<>>
         IN  TheOnly({parseProgram(r.config, cfg, Tail(names), r.loadedPrograms) :
                r \in {ExpandSection(c, section, prefix, programName,
                                     originalProcName, originalCmd, 1,
                                     SectionNumProcs(section), loadedPrograms)}})

\* Config.parse: the last loop, over the other sections
RECURSIVE parseOthers(_, _, _)
parseOthers(c, cfg, names) ==
    IF names = <<>> THEN c
    ELSE IF \/ HasPrefix(Head(names), GroupPrefix)
            \/ HasPrefix(Head(names), ProgramPrefix)
            \/ HasPrefix(Head(names), EventListenerPrefix)
    THEN parseOthers(c, cfg, Tail(names))
    ELSE TheOnly({parseOthers([c EXCEPT !.entries = (Head(names) :> entry) @@ @],
                              cfg, Tail(names)) :
            entry \in {EntryParse(createEntry(c, Head(names)).entries[Head(names)],
                                  [Name |-> Head(names),
                                   keys |-> cfg[Head(names)]])}})

\* Config.parse, the sections being visited in the order names
parse(c, cfg, names) ==
    TheOnly({TheOnly({TheOnly({
        [config |-> parseOthers(r.config, defaulted, names),
         loadedPrograms |-> r.loadedPrograms] :
            r \in {parseProgram(grouped, defaulted, names, <<>>)}}) :
            grouped \in {parseGroup(c, defaulted, names)}}) :
            defaulted \in {setProgramDefaultParams(cfg)}})

\* the orders in which the sections are visited: every order of the program
\* and event-listener sections; the visits of the other sections commute
SectionOrders(cfg) ==
    LET expanding == {name \in DOMAIN cfg : SectionPrefix(name) # <<>>}
        others == CHOOSE order \in MapOrders(DOMAIN cfg \ expanding) : TRUE
    IN  {order \o others : order \in MapOrders(expanding)}

\* ini.LoadFile, whose error Load does not look at: the sections of a file
\* that can be read, none otherwise
LoadFile(file) == IF file.readable THEN file.sections ELSE <<>>

\* Config.Load on the Config c
Load(c, file, names) ==
    TheOnly({[config |-> r.config, loadedPrograms |-> r.loadedPrograms,
              err |-> "nil"] :
        r \in {parse([c EXCEPT !.ProgramGroup = NewProcessGroup],
                     LoadFile(file), names)}})

(***************************************************************************)
(* Supervisor: Reload (section 4.3).  The diff is computed between the     *)
(* in-memory Config and the freshly loaded one; removed and changed        *)
(* programs are stopped and removed, the Config is replaced, added and     *)
(* changed programs are admitted and started, and the triple is returned.  *)
(***************************************************************************)
\* the names in both Configs whose serialized entries compare different
ChangedPrograms(prevNames, newNames, differs) ==
    SelectSeq(newNames, LAMBDA n : Contains(prevNames, n) /\ differs[n])

\* what comparing the serializations of name's two entries can answer
SerializedDiffers(c0, c1, name) ==
    {s0 # s1 : s0 \in UNION {String(e) : e \in GetProgram(c0, name)},
               s1 \in UNION {String(e) : e \in GetProgram(c1, name)}}

SeqToSet(arr) == {arr[i] : i \in 1..Len(arr)}

ReloadAdmitsAlways(active) == TRUE

\* Reload is serialized: it is admitted when no Reload is in progress
ReloadAdmits(active) == ~active

\* the body of the REST answer to a reload that returned res
RestfulReloadBody(res) == [success |-> res = "Ok"]

\* Reload, steps 1 and 2, once Load has returned the Config c1 and err;
\* loadFailed tells whether the file was one that cannot be loaded
ReloadDiff(c1, loadFailed, err) ==
    /\ ReloadAdmits(reload.active)
    /\ bulk.kind = "none"
    /\ workers = {}
    /\ \E prevNames \in GetProgramNames(config), newNames \in GetProgramNames(c1) :
         LET both == SeqToSet(prevNames) \cap SeqToSet(newNames) IN
         \E differs \in [both -> BOOLEAN] :
            /\ \A n \in both : differs[n] \in SerializedDiffers(config, c1, n)
            /\ reload' = [active  |-> TRUE,
                          prev    |-> config,
                          new     |-> c1,
                          added   |-> Sub(newNames, prevNames),
                          changed |-> ChangedPrograms(prevNames, newNames, differs),
                          removed |-> Sub(prevNames, newNames),
                          loadFailed |-> loadFailed,
                          err     |-> err]
    /\ result' = NoResult
    /\ UNCHANGED <<procs, reply, config, bulk, workers, issued, called, callVars>>

\* Reload of files that load into the Config c1
ReloadBegin(c1) == ReloadDiff(c1, FALSE, "nil")

\* files that cannot be loaded: one that cannot be read, and one whose program
\* a has a command with an unknown template variable
BadFiles ==
    {[readable |-> FALSE,
      sections |-> (ProgramPrefix \o ProgA :> (KeyCommand :> <<"x">>))],
     [readable |-> TRUE,
      sections |-> (ProgramPrefix \o ProgA :> (KeyCommand :> <<"%", "(", "n", "o", "p", "e", ")", "s">>))
                @@ (ProgramPrefix \o ProgB :> (KeyCommand :> <<"x">>))]}

\* Reload of a file that cannot be loaded: it goes on with what Load
\* returned unless Load reported an error
ReloadBadFile(file) ==
    \E names \in SectionOrders(LoadFile(file)) :
        \E r \in {Load(NewConfig, file, names)} :
        IF r.err = "nil"
        THEN ReloadDiff(r.config, TRUE, r.err)
        ELSE /\ ReloadAdmits(reload.active)
             /\ reply' = [op |-> "reload", name |-> <<>>, res |-> r.err,
                          from |-> ""]
             /\ UNCHANGED <<procs, facadeVars>>

\* the programs a Reload in progress has to take out of the Manager
Outgoing == SeqToSet(reload.removed) \cup SeqToSet(reload.changed)

IncomingAddedOnly == SeqToSet(reload.added)

\* the programs a Reload in progress has to admit
Incoming == SeqToSet(reload.added) \cup SeqToSet(reload.changed)

\* the Process the Manager creates for a program entry
CreateProcess(entry) == [entry |-> entry] @@ NewProcess(BulkProgramConfig)

\* Reload, step 3: stop an outgoing Process
ReloadStop(p) ==
    /\ reload.active
    /\ p \in Outgoing
    /\ p \in DOMAIN procs
    /\ StopAccepts(procs[p].state)
    /\ DoStop(p)
    /\ UNCHANGED facadeVars

\* Reload, step 3: remove an outgoing Process that has come to rest
ReloadRemove(p) ==
    /\ reload.active
    /\ p \in Outgoing
    /\ p \in DOMAIN procs
    /\ procs[p].state \in {"Stopped", "Exited", "Fatal"}
    /\ procs' = [q \in DOMAIN procs \ {p} |-> procs[q]]
    /\ UNCHANGED <<reply, facadeVars>>

\* Reload, steps 4 to 6: replace the Config, admit the incoming programs,
\* start them and return the triple
ReloadFinish ==
    /\ reload.active
    /\ Outgoing \cap DOMAIN procs = {}
    /\ config' = reload.new
    /\ procs' = [q \in DOMAIN procs \cup Incoming |->
                    IF q \in Incoming
                    THEN CreateProcess(reload.new.entries[q])
                    ELSE procs[q]]
    /\ workers' = workers \cup {[name |-> q, kind |-> "start"] : q \in Incoming}
    /\ reload' = [reload EXCEPT !.active = FALSE]
    /\ result' = [added |-> reload.added, changed |-> reload.changed,
                  removed |-> reload.removed, returned |-> TRUE]
    /\ reply' = [op |-> "reload", name |-> <<>>, res |-> "Ok", from |-> ""]
    /\ UNCHANGED <<bulk, issued, called, callVars>>

\* a Reload invoked while another is in progress
ReloadRejected ==
    /\ ~ReloadAdmits(reload.active)
    /\ reply' = [op |-> "reload", name |-> <<>>, res |-> "IncorrectState",
                 from |-> ""]
    /\ UNCHANGED <<procs, facadeVars>>

\* the child of a Process that is being stopped exits
StopExit(p) ==
    /\ p \in DOMAIN procs
    /\ procs[p].state = "Stopping"
    /\ ChildExit(p)

\* the Configs a Load produces here: at most MaxPrograms of a, b and c; a
\* with command x or y, b and c with command x
ReloadConfigs ==
    {[entries |-> [n \in present |->
                      ProgramEntry(n, KeyCommand :> (IF n = ProgA THEN ca ELSE <<"x">>))],
      ProgramGroup |-> NewProcessGroup] :
        present \in {S \in SUBSET Names : Cardinality(S) <= MaxPrograms},
        ca \in {<<"x">>, <<"y">>}}

ReloadInit ==
    /\ config \in ReloadConfigs
    /\ procs = [n \in DOMAIN config.entries |-> CreateProcess(config.entries[n])]
    /\ reply = NoReply
    /\ bulk = [kind |-> "none", queue |-> <<>>]
    /\ workers = {}
    /\ issued = <<>>
    /\ called = <<>>
    /\ reload = NoReload
    /\ result = NoResult
    /\ input = NoCall
    /\ output = NoCall

ReloadNext ==
    \/ \E c1 \in ReloadConfigs : ReloadBegin(c1)
    \/ \E file \in BadFiles : ReloadBadFile(file)
    \/ \E p \in Names : ReloadStop(p)
    \/ \E p \in Names : ReloadRemove(p)
    \/ ReloadFinish
    \/ ReloadRejected
    \/ \E p \in Names : WorkerRun(p)
    \/ \E p \in Names : SpawnNext(p)
    \/ \E p \in Names : StopExit(p)
    \/ \E p \in Names : FinishStop(p)

\* reloads over children that run until they are stopped
ReloadSpec == ReloadInit /\ [][ReloadNext]_vars

(***************************************************************************)
(* LoadSpec: Config.Load of one configuration file on a new Config.  The   *)
(* file has a section [program:a], whose command, numprocs, process_name   *)
(* and priority vary, and may have [program-default], [eventlistener:e],   *)
(* [program:b] and [group:g].                                              *)
(***************************************************************************)
SectionA == <<"p", "r", "o", "g", "r", "a", "m", ":", "a">>
SectionB == <<"p", "r", "o", "g", "r", "a", "m", ":", "b">>
SectionE == <<"e", "v", "e", "n", "t", "l", "i", "s", "t", "e", "n", "e", "r", ":", "e">>
SectionG == <<"g", "r", "o", "u", "p", ":", "g">>

\* the key maps that leave key out or give it one of values
Optional(key, values) == {<<>>} \cup {key :> v : v \in values}

\* the same for a whole section of an ini file
OptionalSection(name, keymaps) == {<<>>} \cup {name :> keys : keys \in keymaps}

NumprocsValues == {Itoa(n) : n \in 1..MaxNumProcs}

PlainName == <<"w">>
NumberedName == <<"w", "%", "(", "p", "r", "o", "c", "e", "s", "s", "_", "n", "u", "m", ")", "d">>

ProgramASections ==
    {(KeyCommand :> cmd) @@ np @@ pn @@ pr :
        cmd \in {<<"x">>, <<"r", "u", "n", " ", "%", "(", "p", "r", "o", "c", "e", "s", "s", "_", "n", "u", "m", ")", "d">>},
        np \in Optional(KeyNumprocs, NumprocsValues),
        pn \in Optional(KeyProcessName, {PlainName, NumberedName}),
        pr \in Optional(KeyPriority, {<<"7">>})}

ProgramBSections ==
    {(KeyCommand :> <<"y">>) @@ pn : pn \in Optional(KeyProcessName, {PlainName})}

IniFiles ==
    {[readable |-> TRUE, sections |-> (SectionA :> a) @@ b @@ d @@ e @@ g] :
        a \in ProgramASections,
        b \in OptionalSection(SectionB, ProgramBSections),
        d \in OptionalSection(ProgramDefaultName, {KeyPriority :> <<" ", "5">>}),
        e \in OptionalSection(SectionE, {KeyCommand :> <<"e", "v">>}),
        g \in OptionalSection(SectionG, {KeyPrograms :> <<"a">>,
                                         KeyPrograms :> <<"b", ",", " ", "a">>})}

LoadInit ==
    /\ procs = <<>>
    /\ reply = NoReply
    /\ config = NewConfig
    /\ bulk = [kind |-> "none", queue |-> <<>>]
    /\ workers = {}
    /\ issued = <<>>
    /\ called = <<>>
    /\ reload = NoReload
    /\ result = NoResult
    /\ \E file \in IniFiles : \E names \in SectionOrders(file.sections) :
          input = [fn |-> "Load", file |-> file, names |-> names]
    /\ output = NoCall

\* c.Load()
LoadCall ==
    /\ input.fn = "Load"
    /\ output = NoCall
    /\ \E r \in {Load(config, input.file, input.names)} :
          /\ config' = r.config
          /\ output' = [fn |-> "Load", loadedPrograms |-> r.loadedPrograms,
                        err |-> r.err]
    /\ UNCHANGED <<procs, reply, bulk, workers, issued, called, reload, result,
                   input>>

LoadNext == LoadCall

LoadSpec == LoadInit /\ [][LoadNext]_vars

(***************************************************************************)
(* EvalSpec: StringExpression.Eval of one string, put together from texts  *)
(* and templates, in an environment with ENV_HOME, process_num and ENV_X.  *)
(***************************************************************************)
EnvHome == <<"E", "N", "V", "_", "H", "O", "M", "E">>
EnvX == <<"E", "N", "V", "_", "X">>

TextPieces == {<<"/", "b", "i", "n", "/", "e", "c", "h", "o", " ">>, <<"/">>}

\* the templates, each as [name, verb]: %(name)verb
TemplatePieces ==
    {[name |-> EnvHome, verb |-> <<"s">>],
     [name |-> EnvX, verb |-> <<"s">>],
     [name |-> KeyProcessNum, verb |-> <<"d">>],
     [name |-> KeyProcessNum, verb |-> <<"0", "2", "d">>]}

Pieces == {[text |-> t] : t \in TextPieces} \cup TemplatePieces

IsText(piece) == DOMAIN piece = {"text"}

\* a piece as it is written in the string
Written(piece) ==
    IF IsText(piece) THEN piece.text
    ELSE <<"%", "(">> \o piece.name \o <<")">> \o piece.verb

\* the string of a sequence of pieces
RECURSIVE WrittenAll(_)
WrittenAll(pieces) ==
    IF pieces = <<>> THEN <<>>
    ELSE Written(Head(pieces)) \o WrittenAll(Tail(pieces))

PieceSeqs == UNION {[1..n -> Pieces] : n \in 0..MaxPieces}

\* the environments: process_num is 3 or 12, ENV_X is a plain word or holds
\* the characters of a template
EvalEnvs ==
    {StringExpressionAdd(NewStringExpression(KeyProcessNum :> num), EnvX, x) :
        num \in {<<"3">>, <<"1", "2">>},
        x \in {<<"v">>, <<"%", "(", "p", "r", "o", "c", "e", "s", "s", "_", "n", "u", "m", ")", "d">>}}

EvalInit ==
    /\ procs = <<>>
    /\ reply = NoReply
    /\ config = NewConfig
    /\ bulk = [kind |-> "none", queue |-> <<>>]
    /\ workers = {}
    /\ issued = <<>>
    /\ called = <<>>
    /\ reload = NoReload
    /\ result = NoResult
    /\ \E pieces \in PieceSeqs : \E env \in EvalEnvs :
          input = [fn |-> "Eval", pieces |-> pieces, env |-> env,
                   s |-> WrittenAll(pieces)]
    /\ output = NoCall

\* se.Eval(s)
EvalCall ==
    /\ input.fn = "Eval"
    /\ output = NoCall
    /\ \E r \in {Eval(input.env, input.s)} :
          output' = [fn |-> "Eval", s |-> r.s, err |-> r.err]
    /\ UNCHANGED <<procs, reply, config, bulk, workers, issued, called, reload,
                   result, input>>

EvalNext == EvalCall

EvalSpec == EvalInit /\ [][EvalNext]_vars

(***************************************************************************)
(* Entry: the accessors that evaluate templates                            *)
(***************************************************************************)
KeyProgramName == <<"p", "r", "o", "g", "r", "a", "m", "_", "n", "a", "m", "e">>
KeyGroupName == <<"g", "r", "o", "u", "p", "_", "n", "a", "m", "e">>
KeyHere == <<"h", "e", "r", "e">>
KeyHostNodeName == <<"h", "o", "s", "t", "_", "n", "o", "d", "e", "_", "n", "a", "m", "e">>
KeyDirectory == <<"d", "i", "r", "e", "c", "t", "o", "r", "y">>
KeyStdoutLogfile == <<"s", "t", "d", "o", "u", "t", "_", "l", "o", "g", "f", "i", "l", "e">>
KeyEnvFiles == <<"e", "n", "v", "F", "i", "l", "e", "s">>

\* Entry.GetString
GetString(entry, key, defValue) ==
    IF key \in DOMAIN entry.keyValues
    THEN LET r == Eval(NewStringExpression(KeyHere :> ConfigFileDir),
                       entry.keyValues[key])
         IN  IF r.err = "nil" THEN r.s ELSE defValue
    ELSE defValue

\* the environment of Entry.GetEnv and Entry.GetEnvFromFiles
AccessorEnvironment(entry) ==
    NewStringExpression((KeyProgramName :> GetProgramName(entry))
                        @@ (KeyProcessNum :> GetString(entry, KeyProcessNum, <<"0">>))
                        @@ (KeyGroupName :> GetGroupName(entry))
                        @@ (KeyHere :> ConfigFileDir))

\* the k=v strings of a map that evaluate, in the order of the keys
EvalPairs(entry, pairs, order) ==
    LET evaluated == [i \in 1..Len(order) |->
                         Eval(AccessorEnvironment(entry),
                              order[i] \o <<"=">> \o pairs[order[i]])]
        kept == SelectSeq(evaluated, LAMBDA r : r.err = "nil")
    IN  [i \in 1..Len(kept) |-> kept[i].s]

\* Entry.GetEnv: the possible results, one for each order of the range over
\* the parsed map
GetEnv(entry, key) ==
    IF key \in DOMAIN entry.keyValues
    THEN {EvalPairs(entry, parseEnv(entry.keyValues[key]), order) :
             order \in MapOrders(DOMAIN parseEnv(entry.keyValues[key]))}
    ELSE {<<>>}

\* the env files on disk, as envparse.Parse reads them
EnvFileSystem(template) == (<<"/", "e", "t", "c", "/", "a", ".", "e", "n", "v">> :> (<<"V">> :> template))

\* parseEnvFiles over the paths, with the files on disk fs
RECURSIVE CopyEnvFiles(_, _, _)
CopyEnvFiles(paths, fs, parsed) ==
    IF paths = <<>> THEN parsed
    ELSE IF TrimSpace(Head(paths)) \notin DOMAIN fs
    THEN CopyEnvFiles(Tail(paths), fs, parsed)
    ELSE CopyEnvFiles(Tail(paths), fs, fs[TrimSpace(Head(paths))] @@ parsed)

parseEnvFiles(s, fs) == CopyEnvFiles(Split(s, ","), fs, <<>>)

\* Entry.GetEnvFromFiles: the possible results
GetEnvFromFiles(entry, key, fs) ==
    IF key \in DOMAIN entry.keyValues
    THEN {EvalPairs(entry, parseEnvFiles(entry.keyValues[key], fs), order) :
             order \in MapOrders(DOMAIN parseEnvFiles(entry.keyValues[key], fs))}
    ELSE {<<>>}

\* Entry.GetStringExpression
GetStringExpression(entry, key) ==
    IF key \notin DOMAIN entry.keyValues \/ entry.keyValues[key] = <<>>
    THEN <<>>
    ELSE LET r == Eval(NewStringExpression(
                           (KeyProgramName :> GetProgramName(entry))
                           @@ (KeyProcessNum :> GetString(entry, KeyProcessNum, <<"0">>))
                           @@ (KeyGroupName :> GetGroupName(entry))
                           @@ (KeyHere :> ConfigFileDir)
                           @@ (KeyHostNodeName :> Hostname)),
                       entry.keyValues[key])
         IN  IF r.err = "nil" THEN r.s ELSE entry.keyValues[key]

(***************************************************************************)
(* AccessorSpec: a file with [program:a], whose command, directory,        *)
(* stdout_logfile, environment and env file use one of the process-scoped  *)
(* names, is loaded, and one accessor is called on the entry of a.         *)
(***************************************************************************)
ScopedNames ==
    {KeyProgramName, KeyProcessNum, KeyGroupName, KeyHere, KeyHostNodeName}

\* the template of a name, alone or followed by a text
ScopedTemplate(name, suffix) == <<"%", "(">> \o name \o <<")", "s">> \o suffix

TemplateSuffixes == {<<>>, <<".", "l", "o", "g">>}

AccessorSection(template) ==
    (KeyCommand :> template)
    @@ (KeyDirectory :> template)
    @@ (KeyStdoutLogfile :> template)
    @@ (KeyEnvironment :> (<<"V", "=", "\"">> \o template \o <<"\"">>))
    @@ (KeyEnvFiles :> <<"/", "e", "t", "c", "/", "a", ".", "e", "n", "v">>)

\* the groups of the file: none, one with the program a, one without it
AccessorGroups ==
    OptionalSection(SectionG, {KeyPrograms :> <<"a">>, KeyPrograms :> <<"b">>})

AccessorFiles ==
    {[readable |-> TRUE,
      template |-> ScopedTemplate(name, suffix),
      name |-> name,
      suffix |-> suffix,
      sections |-> (SectionA :> AccessorSection(ScopedTemplate(name, suffix))) @@ g] :
        name \in ScopedNames, suffix \in TemplateSuffixes, g \in AccessorGroups}

AccessorInit ==
    /\ procs = <<>>
    /\ reply = NoReply
    /\ config = NewConfig
    /\ bulk = [kind |-> "none", queue |-> <<>>]
    /\ workers = {}
    /\ issued = <<>>
    /\ called = <<>>
    /\ reload = NoReload
    /\ result = NoResult
    /\ \E file \in AccessorFiles : \E names \in SectionOrders(file.sections) :
          input = [fn |-> "Load", file |-> file, names |-> names]
    /\ output = NoCall

\* the entry the accessors are called on
AccessorEntry == config.entries[<<"a">>]

AccessorReturns(fn, value) ==
    /\ output.fn = "Load"
    /\ output' = [fn |-> fn, value |-> value, err |-> "nil"]
    /\ UNCHANGED <<procs, reply, config, bulk, workers, issued, called, reload,
                   result, input>>

GetStringCall ==
    /\ <<"a">> \in DOMAIN config.entries
    /\ AccessorReturns("GetString", GetString(AccessorEntry, KeyDirectory, <<>>))

GetStringExpressionCall ==
    /\ <<"a">> \in DOMAIN config.entries
    /\ AccessorReturns("GetStringExpression",
                       GetStringExpression(AccessorEntry, KeyStdoutLogfile))

GetEnvCall ==
    /\ output.fn = "Load"
    /\ \E value \in GetEnv(AccessorEntry, KeyEnvironment) :
          AccessorReturns("GetEnv", value)

GetEnvFromFilesCall ==
    /\ output.fn = "Load"
    /\ \E value \in GetEnvFromFiles(AccessorEntry, KeyEnvFiles,
                                    EnvFileSystem(input.file.template)) :
          AccessorReturns("GetEnvFromFiles", value)

AccessorNext ==
    \/ LoadCall
    \/ GetStringCall
    \/ GetStringExpressionCall
    \/ GetEnvCall
    \/ GetEnvFromFilesCall

AccessorSpec == AccessorInit /\ [][AccessorNext]_vars

(***************************************************************************)
(* TemplateSpec: a file whose [program:a] has, under command, directory    *)
(* and stdout_logfile, a text or a template that cannot be evaluated, is   *)
(* loaded, and GetString or GetStringExpression is called on the entry.    *)
(***************************************************************************)
\* a text, and templates with an unknown variable, with %(var)d on a value
\* that is no integer, and without the closing parenthesis; each with the
\* error Eval has for it
TemplateKinds ==
    {[template |-> <<"x">>, err |-> "nil"],
     [template |-> <<"%", "(", "n", "o", "p", "e", ")", "s">>, err |-> "EnvVarNotFound"],
     [template |-> <<"%", "(", "h", "e", "r", "e", ")", "d">>, err |-> "EnvVarConversion"],
     [template |-> <<"%", "(", "h", "e", "r", "e">>, err |-> "InvalidStringExpr"]}

TemplateFiles ==
    {[readable |-> TRUE,
      kinds |-> (KeyCommand :> c.err) @@ (KeyDirectory :> d.err)
                @@ (KeyStdoutLogfile :> l.err),
      sections |-> (SectionA :> ((KeyCommand :> c.template)
                                 @@ (KeyDirectory :> d.template)
                                 @@ (KeyStdoutLogfile :> l.template)))] :
        c \in TemplateKinds, d \in TemplateKinds, l \in TemplateKinds}

TemplateInit ==
    /\ procs = <<>>
    /\ reply = NoReply
    /\ config = NewConfig
    /\ bulk = [kind |-> "none", queue |-> <<>>]
    /\ workers = {}
    /\ issued = <<>>
    /\ called = <<>>
    /\ reload = NoReload
    /\ result = NoResult
    /\ \E file \in TemplateFiles :
          input = [fn |-> "Load", file |-> file, names |-> <<SectionA>>]
    /\ output = NoCall

TemplateNext ==
    \/ LoadCall
    \/ GetStringCall
    \/ GetStringExpressionCall

TemplateSpec == TemplateInit /\ [][TemplateNext]_vars

(***************************************************************************)
(* BytesSpec: Entry.GetBytes on an entry whose key stdout_logfile_maxbytes *)
(* is absent or holds a number, written or not, with or without a suffix.  *)
(***************************************************************************)
KeyMaxBytes == <<"s", "t", "d", "o", "u", "t", "_", "l", "o", "g", "f", "i", "l", "e", "_", "m", "a", "x", "b", "y", "t", "e", "s">>

\* the decimal text of an integer
SignedText(n) == IF n < 0 THEN <<"-">> \o Itoa(0 - n) ELSE Itoa(n)

\* the sizes: the number, its text, the suffix, and the factor the suffix
\* stands for (0 when the text is no size)
ByteSizes ==
    {[n |-> n, text |-> SignedText(n), suffix |-> u.suffix, factor |-> u.factor] :
        n \in {-1, 0, 1, 7, 1024},
        u \in {[suffix |-> <<>>, factor |-> 1],
               [suffix |-> <<"K", "B">>, factor |-> 1024],
               [suffix |-> <<"M", "B">>, factor |-> 1048576]}}
    \cup {[n |-> n, text |-> SignedText(n), suffix |-> <<"G", "B">>,
           factor |-> 1073741824] : n \in {-1, 0, 1}}
    \cup {[n |-> 5, text |-> <<"+", "5">>, suffix |-> <<"K", "B">>, factor |-> 1024]}
    \cup {[n |-> 0, text |-> t, suffix |-> u, factor |-> 0] :
            t \in {<<>>, <<"x">>, <<"1", "x">>, <<"1", ".", "5">>, <<" ", "1">>},
            u \in {<<>>, <<"K", "B">>, <<"M", "B">>, <<"G", "B">>}}
    \cup {[n |-> 0, text |-> <<"1">>, suffix |-> u, factor |-> 0] :
            u \in {<<"k", "b">>, <<"K">>, <<"T", "B">>, <<"K", "B", " ">>}}

\* the defaults the callers pass: none, and 50MB
ByteDefaults == {0, 52428800}

BytesInit ==
    /\ procs = <<>>
    /\ reply = NoReply
    /\ config = NewConfig
    /\ bulk = [kind |-> "none", queue |-> <<>>]
    /\ workers = {}
    /\ issued = <<>>
    /\ called = <<>>
    /\ reload = NoReload
    /\ result = NoResult
    /\ \E defValue \in ByteDefaults :
          \/ \E size \in ByteSizes :
                input = [fn |-> "GetBytes", present |-> TRUE, size |-> size,
                         keyValues |-> (KeyMaxBytes :> (size.text \o size.suffix)),
                         defValue |-> defValue]
          \/ input = [fn |-> "GetBytes", present |-> FALSE,
                      keyValues |-> <<>>, defValue |-> defValue]
    /\ output = NoCall

\* entry.GetBytes("stdout_logfile_maxbytes", defValue)
GetBytesCall ==
    /\ input.fn = "GetBytes"
    /\ output = NoCall
    /\ output' = [fn |-> "GetBytes",
                  value |-> GetBytes([Name |-> SectionA, Group |-> <<>>,
                                      keyValues |-> input.keyValues],
                                     KeyMaxBytes, input.defValue)]
    /\ UNCHANGED <<procs, reply, config, bulk, workers, issued, called, reload,
                   result, input>>

BytesNext == GetBytesCall

BytesSpec == BytesInit /\ [][BytesNext]_vars

(***************************************************************************)
(* signals.ToSignal, and SignalSpec: a signal name is resolved and the     *)
(* signal sent to a child.  A signal is its Linux number.                  *)
(***************************************************************************)
signalMap ==
    (<<"S", "I", "G", "A", "B", "R", "T">> :> 6)
    @@ (<<"S", "I", "G", "A", "L", "R", "M">> :> 14)
    @@ (<<"S", "I", "G", "B", "U", "S">> :> 7)
    @@ (<<"S", "I", "G", "C", "H", "L", "D">> :> 17)
    @@ (<<"S", "I", "G", "C", "L", "D">> :> 17)
    @@ (<<"S", "I", "G", "C", "O", "N", "T">> :> 18)
    @@ (<<"S", "I", "G", "F", "P", "E">> :> 8)
    @@ (<<"S", "I", "G", "H", "U", "P">> :> 1)
    @@ (<<"S", "I", "G", "I", "L", "L">> :> 4)
    @@ (<<"S", "I", "G", "I", "N", "T">> :> 2)
    @@ (<<"S", "I", "G", "I", "O">> :> 29)
    @@ (<<"S", "I", "G", "I", "O", "T">> :> 6)
    @@ (<<"S", "I", "G", "K", "I", "L", "L">> :> 9)
    @@ (<<"S", "I", "G", "P", "I", "P", "E">> :> 13)
    @@ (<<"S", "I", "G", "P", "O", "L", "L">> :> 29)
    @@ (<<"S", "I", "G", "P", "R", "O", "F">> :> 27)
    @@ (<<"S", "I", "G", "P", "W", "R">> :> 30)
    @@ (<<"S", "I", "G", "Q", "U", "I", "T">> :> 3)
    @@ (<<"S", "I", "G", "S", "E", "G", "V">> :> 11)
    @@ (<<"S", "I", "G", "S", "T", "K", "F", "L", "T">> :> 16)
    @@ (<<"S", "I", "G", "S", "T", "O", "P">> :> 19)
    @@ (<<"S", "I", "G", "S", "Y", "S">> :> 31)
    @@ (<<"S", "I", "G", "T", "E", "R", "M">> :> 15)
    @@ (<<"S", "I", "G", "T", "R", "A", "P">> :> 5)
    @@ (<<"S", "I", "G", "T", "S", "T", "P">> :> 20)
    @@ (<<"S", "I", "G", "T", "T", "I", "N">> :> 21)
    @@ (<<"S", "I", "G", "T", "T", "O", "U">> :> 22)
    @@ (<<"S", "I", "G", "U", "N", "U", "S", "E", "D">> :> 31)
    @@ (<<"S", "I", "G", "U", "R", "G">> :> 23)
    @@ (<<"S", "I", "G", "U", "S", "R", "1">> :> 10)
    @@ (<<"S", "I", "G", "U", "S", "R", "2">> :> 12)
    @@ (<<"S", "I", "G", "V", "T", "A", "L", "R", "M">> :> 26)
    @@ (<<"S", "I", "G", "W", "I", "N", "C", "H">> :> 28)
    @@ (<<"S", "I", "G", "X", "C", "P", "U">> :> 24)
    @@ (<<"S", "I", "G", "X", "F", "S", "Z">> :> 25)

\* ToSignal: the signal of a name, with or without the prefix SIG
ToSignal(signalName) ==
    LET name == IF ~HasPrefix(signalName, <<"S", "I", "G">>)
                THEN <<"S", "I", "G">> \o signalName ELSE signalName
    IN  IF name \in DOMAIN signalMap
        THEN [sig |-> signalMap[name], err |-> "nil"]
        ELSE [sig |-> signalMap[<<"S", "I", "G", "T", "E", "R", "M">>], err |-> "nil"]

\* the names of the table without their prefix
ShortSignalNames == {SubSeq(n, 4, Len(n)) : n \in DOMAIN signalMap}

\* names no signal has
UnknownSignalNames ==
    {<<"B", "O", "G", "U", "S">>, <<"S", "I", "G", "B", "O", "G", "U", "S">>, <<>>, <<"S", "I", "G">>, <<"t", "e", "r", "m">>, <<"s", "i", "g", "t", "e", "r", "m">>, <<"1", "5">>,
     <<"S", "I", "G", "S", "I", "G", "T", "E", "R", "M">>}

SignalInit ==
    /\ procs = [n \in {ProgA} |-> [NewProcess(BulkProgramConfig) EXCEPT
                                      !.state = "Running", !.pid = 1]]
    /\ reply = NoReply
    /\ config = NewConfig
    /\ bulk = [kind |-> "none", queue |-> <<>>]
    /\ workers = {}
    /\ issued = <<>>
    /\ called = <<>>
    /\ reload = NoReload
    /\ result = NoResult
    /\ \/ \E n \in DOMAIN signalMap \cup ShortSignalNames :
             input = [fn |-> "ToSignal", signalName |-> n, known |-> TRUE]
       \/ \E n \in UnknownSignalNames :
             input = [fn |-> "ToSignal", signalName |-> n, known |-> FALSE]
    /\ output = NoCall

\* signals.ToSignal(signalName)
ToSignalCall ==
    /\ input.fn = "ToSignal"
    /\ output = NoCall
    /\ \E r \in {ToSignal(input.signalName)} :
          output' = [fn |-> "ToSignal", sig |-> r.sig, err |-> r.err]
    /\ UNCHANGED <<procs, reply, config, bulk, workers, issued, called, reload,
                   result, input>>

\* signalProcess: the signal goes to the child unless its name did not
\* resolve
SendSignal(p) ==
    /\ output.fn = "ToSignal"
    /\ reply = NoReply
    /\ IF output.err = "nil"
       THEN /\ called' = Append(called, [pid |-> Kill(procs[p].pid, FALSE),
                                         sig |-> output.sig])
            /\ reply' = [op |-> "signal", name |-> p, res |-> "Ok", from |-> ""]
       ELSE /\ reply' = [op |-> "signal", name |-> p, res |-> "BadSignal",
                         from |-> ""]
            /\ UNCHANGED called
    /\ UNCHANGED <<procs, config, bulk, workers, issued, reload, result,
                   input, output>>

SignalNext ==
    \/ ToSignalCall
    \/ \E p \in DOMAIN procs : SendSignal(p)

SignalSpec == SignalInit /\ [][SignalNext]_vars

(***************************************************************************)
(* cmd/supervisord: main, runServer and initSignals.  MainSpec follows the *)
(* supervisor process from the parsing of its command line to its exit.    *)
(* output holds where main is (pc), why it ended (cause) and the status    *)
(* the operating system sees (code).                                       *)
(***************************************************************************)
\* the exit status of os.Exit(code): its low eight bits
ExitStatus(code) == code % 256

\* the exit status of a Go program that ends in a panic
PanicStatus == 2

MainAt(pc, loops) ==
    [fn |-> "main", pc |-> pc, loops |-> loops, cause |-> "", code |-> NoStatus]

MainExited(cause, code) ==
    [fn |-> "main", pc |-> "exited", loops |-> output.loops, cause |-> cause,
     code |-> ExitStatus(code)]

mainVars == <<procs, reply, config, bulk, workers, issued, called, reload,
              result, input>>

MainInit ==
    /\ procs \in [{ProgA, ProgB} -> {NewProcess(BulkProgramConfig)}]
    /\ reply = NoReply
    /\ config = NewConfig
    /\ bulk = [kind |-> "none", queue |-> <<>>]
    /\ workers = {}
    /\ issued = <<>>
    /\ called = <<>>
    /\ reload = NoReload
    /\ result = NoResult
    /\ \E args \in {"ok", "help", "error"} : \E fails \in 0..MaxServerRestarts + 1 :
          \E daemon \in BOOLEAN :
          input = [fn |-> "main", parse |-> args, failingReload |-> fails,
                   daemon |-> daemon]
    /\ output = MainAt("main", 0)

\* main: parser.Parse() that fails, with the help text or with an error
ParseFails ==
    /\ output.pc = "main"
    /\ input.parse # "ok"
    /\ output' = IF input.parse = "help" THEN MainExited("help", 0)
                 ELSE MainExited("usage", 1)
    /\ UNCHANGED mainVars

\* main: no sub-command, the command handler calls runServer, directly or
\* through Daemonize
ParseOk ==
    /\ output.pc = "main"
    /\ input.parse = "ok"
    /\ output' = MainAt("runServer", 0)
    /\ UNCHANGED mainVars

\* runServer: one turn of the loop up to WaitForExit; s.Reload(true) fails in
\* the turn input.failingReload, and runServer panics
ServerLoop ==
    /\ output.pc = "runServer"
    /\ IF output.loops + 1 = input.failingReload
       THEN /\ output' = MainExited("init", PanicStatus)
            /\ UNCHANGED procs
       ELSE /\ output' = MainAt("WaitForExit", output.loops + 1)
            /\ procs' = [p \in DOMAIN procs |->
                            [procs[p] EXCEPT !.state = "Running", !.pid = 1]]
    /\ UNCHANGED <<reply, config, bulk, workers, issued, called, reload,
                   result, input>>

\* initSignals: SIGINT or SIGTERM arrives, every child is stopped and the
\* goroutine calls os.Exit(-1)
TerminationSignal ==
    /\ output.pc = "WaitForExit"
    /\ procs' = [p \in DOMAIN procs |->
                    [procs[p] EXCEPT !.state = "Stopped", !.pid = 0]]
    /\ \E sig \in {"SIGINT", "SIGTERM"} : output' = MainExited(sig, -1)
    /\ UNCHANGED <<reply, config, bulk, workers, issued, called, reload,
                   result, input>>

\* the operator's shutdown command: every child is stopped and the
\* supervisor exits
OperatorShutdown ==
    /\ output.pc = "WaitForExit"
    /\ procs' = [p \in DOMAIN procs |->
                    [procs[p] EXCEPT !.state = "Stopped", !.pid = 0]]
    /\ output' = MainExited("shutdown", 0)
    /\ UNCHANGED <<reply, config, bulk, workers, issued, called, reload,
                   result, input>>

\* the operator's restart command: WaitForExit returns and the loop of
\* runServer starts over
OperatorRestart ==
    /\ output.pc = "WaitForExit"
    /\ output.loops <= MaxServerRestarts
    /\ output' = MainAt("runServer", output.loops)
    /\ UNCHANGED mainVars

MainNext ==
    \/ ParseFails
    \/ ParseOk
    \/ ServerLoop
    \/ TerminationSignal
    \/ OperatorShutdown
    \/ OperatorRestart

MainSpec == MainInit /\ [][MainNext]_vars

(***************************************************************************)
(* cmd/supervisord: findSupervisordConf.  A path is a record of its        *)
(* segments and of whether it starts at the root; the file system is the   *)
(* working directory and the set of absolute paths that exist.             *)
(***************************************************************************)
RelPath(segs) == [abs |-> FALSE, segs |-> segs]

AbsPath(segs) == [abs |-> TRUE, segs |-> segs]

\* the empty string
NoPath == RelPath(<<>>)

\* filepath.Clean of a rooted path: "." is dropped, ".." removes the segment
\* before it and stays at the root
RECURSIVE CleanSegs(_, _)
CleanSegs(done, rest) ==
    IF rest = <<>> THEN done
    ELSE IF Head(rest) = "." THEN CleanSegs(done, Tail(rest))
    ELSE IF Head(rest) = ".."
    THEN CleanSegs(IF done = <<>> THEN done ELSE SubSeq(done, 1, Len(done) - 1),
                   Tail(rest))
    ELSE CleanSegs(Append(done, Head(rest)), Tail(rest))

\* filepath.Abs
Abs(cwd, file) ==
    AbsPath(CleanSegs(<<>>, IF file.abs THEN file.segs ELSE cwd \o file.segs))

\* os.Stat(file) returns no error
Stat(fs, file) == file # NoPath /\ Abs(fs.cwd, file) \in fs.exists

\* the order of the comment above findSupervisordConf
possibleSupervisordConfDoc(Configuration) ==
    << Configuration,
       RelPath(<<".", "supervisord.conf">>),
       RelPath(<<".", "etc", "supervisord.conf">>),
       AbsPath(<<"etc", "supervisord.conf">>),
       AbsPath(<<"etc", "supervisor", "supervisord.conf">>),
       RelPath(<<"..", "etc", "supervisord.conf">>),
       RelPath(<<"..", "supervisord.conf">>) >>

possibleSupervisordConf(Configuration) ==
    << Configuration,
       RelPath(<<".", "supervisord.ini">>),
       RelPath(<<".", "etc", "supervisord.conf">>),
       AbsPath(<<"etc", "supervisord.conf">>),
       AbsPath(<<"etc", "supervisor", "supervisord.conf">>),
       RelPath(<<"..", "etc", "supervisord.conf">>),
       RelPath(<<"..", "supervisord.conf">>),
       RelPath(<<".", "supervisord.conf">>) >>

findSupervisordConf(fs, Configuration) ==
    LET files == possibleSupervisordConf(Configuration)
        found == {i \in 1..Len(files) : Stat(fs, files[i])}
    IN  IF found = {} THEN [file |-> NoPath, err |-> "ErrConfigNotFound"]
        ELSE [file |-> Abs(fs.cwd, files[CHOOSE i \in found :
                                            \A j \in found : i <= j]),
              err |-> "nil"]

\* the working directories and the values of -c that are tried
WorkingDirs == {<<>>, <<"etc">>, <<"srv", "app">>}

ConfigurationOptions ==
    {NoPath, AbsPath(<<"opt", "my.ini">>), RelPath(<<"my.ini">>)}

ConfFiles ==
    UNION {{Abs(cwd, possibleSupervisordConf(c)[i]) :
               i \in 1..Len(possibleSupervisordConf(c))} :
           cwd \in WorkingDirs, c \in ConfigurationOptions \ {NoPath}}

FindInit ==
    /\ procs = <<>>
    /\ reply = NoReply
    /\ config = NewConfig
    /\ bulk = [kind |-> "none", queue |-> <<>>]
    /\ workers = {}
    /\ issued = <<>>
    /\ called = <<>>
    /\ reload = NoReload
    /\ result = NoResult
    /\ \E cwd \in WorkingDirs : \E c \in ConfigurationOptions :
          \E exists \in {e \in SUBSET ConfFiles : Cardinality(e) <= 2} :
          input = [fn |-> "findSupervisordConf", Configuration |-> c,
                   cwd |-> cwd, exists |-> exists]
    /\ output = NoCall

findSupervisordConfCall ==
    /\ input.fn = "findSupervisordConf"
    /\ output = NoCall
    /\ \E r \in {findSupervisordConf(input, input.Configuration)} :
          output' = [fn |-> "findSupervisordConf", file |-> r.file, err |-> r.err]
    /\ UNCHANGED <<procs, reply, config, bulk, workers, issued, called, reload,
                   result, input>>

\* runServer: the configuration file that NewSupervisor is given
runServerConfiguration ==
    /\ input.fn = "findSupervisordConf"
    /\ output = NoCall
    /\ output' = [fn |-> "runServer", err |-> "nil",
                  file |-> IF input.Configuration = NoPath
                           THEN findSupervisordConf(input, input.Configuration).file
                           ELSE input.Configuration]
    /\ UNCHANGED <<procs, reply, config, bulk, workers, issued, called, reload,
                   result, input>>

FindNext == findSupervisordConfCall \/ runServerConfiguration

FindSpec == FindInit /\ [][FindNext]_vars

(***************************************************************************)
(* rpc: httpBasicAuth.  Strings are sequences of characters.  The SHA-1    *)
(* digests are those of the passwords that the requests of AuthSpec carry. *)
(***************************************************************************)
\* hex.EncodeToString(sha1(s)), for the passwords that are tried
Sha1Hex(s) ==
    CASE s = <<"s", "e", "c", "r", "e", "t">> ->
        <<"e", "5", "e", "9", "f", "a", "1", "b", "a", "3", "1", "e", "c", "d", "1", "a", "e", "8", "4", "f", "7", "5", "c", "a", "a", "a", "4", "7", "4", "f", "3", "a", "6", "6", "3", "f", "0", "5", "f", "4">>
      [] s = <<"w", "r", "o", "n", "g">> ->
        <<"a", "4", "b", "4", "8", "a", "8", "1", "c", "d", "a", "b", "1", "e", "1", "a", "5", "d", "d", "3", "7", "9", "0", "7", "d", "6", "c", "8", "5", "c", "a", "1", "c", "6", "1", "d", "d", "c", "7", "c">>
      [] s = <<>> ->
        <<"d", "a", "3", "9", "a", "3", "e", "e", "5", "e", "6", "b", "4", "b", "0", "d", "3", "2", "5", "5", "b", "f", "e", "f", "9", "5", "6", "0", "1", "8", "9", "0", "a", "f", "d", "8", "0", "7", "0", "9">>
      [] s = <<"{", "S", "H", "A", "}", "e", "5", "e", "9", "f", "a", "1", "b", "a", "3", "1", "e", "c", "d", "1", "a", "e", "8", "4", "f", "7", "5", "c", "a", "a", "a", "4", "7", "4", "f", "3", "a", "6", "6", "3", "f", "0", "5", "f", "4">> ->
        <<"a", "d", "6", "b", "8", "7", "9", "9", "0", "8", "3", "3", "a", "c", "2", "b", "e", "6", "d", "c", "6", "0", "7", "7", "2", "6", "d", "7", "d", "a", "2", "c", "6", "f", "a", "8", "9", "3", "a", "7">>
      [] s = <<"e", "5", "e", "9", "f", "a", "1", "b", "a", "3", "1", "e", "c", "d", "1", "a", "e", "8", "4", "f", "7", "5", "c", "a", "a", "a", "4", "7", "4", "f", "3", "a", "6", "6", "3", "f", "0", "5", "f", "4">> ->
        <<"8", "e", "2", "a", "d", "3", "b", "8", "e", "7", "e", "e", "8", "c", "d", "f", "3", "4", "d", "6", "6", "b", "1", "2", "0", "f", "a", "e", "7", "0", "6", "2", "5", "a", "b", "1", "a", "4", "a", "e">>

RequestPasswords ==
    {<<"s", "e", "c", "r", "e", "t">>, <<"w", "r", "o", "n", "g">>, <<>>, <<"{", "S", "H", "A", "}", "e", "5", "e", "9", "f", "a", "1", "b", "a", "3", "1", "e", "c", "d", "1", "a", "e", "8", "4", "f", "7", "5", "c", "a", "a", "a", "4", "7", "4", "f", "3", "a", "6", "6", "3", "f", "0", "5", "f", "4">>, <<"e", "5", "e", "9", "f", "a", "1", "b", "a", "3", "1", "e", "c", "d", "1", "a", "e", "8", "4", "f", "7", "5", "c", "a", "a", "a", "4", "7", "4", "f", "3", "a", "6", "6", "3", "f", "0", "5", "f", "4">>}

\* the password of the configuration: none, plain, {SHA} with the digest in
\* lower case, {SHA} with the digest in upper case, {SHA} alone
ConfiguredPasswords ==
    {<<>>, <<"s", "e", "c", "r", "e", "t">>, <<"{", "S", "H", "A", "}", "e", "5", "e", "9", "f", "a", "1", "b", "a", "3", "1", "e", "c", "d", "1", "a", "e", "8", "4", "f", "7", "5", "c", "a", "a", "a", "4", "7", "4", "f", "3", "a", "6", "6", "3", "f", "0", "5", "f", "4">>, <<"{", "S", "H", "A", "}", "E", "5", "E", "9", "F", "A", "1", "B", "A", "3", "1", "E", "C", "D", "1", "A", "E", "8", "4", "F", "7", "5", "C", "A", "A", "A", "4", "7", "4", "F", "3", "A", "6", "6", "3", "F", "0", "5", "F", "4">>, <<"{", "S", "H", "A", "}">>}

StatusUnauthorized == 401

\* what ServeHTTP does with a request: whether the wrapped handler is called,
\* and the status codes the wrapper itself writes
ServeHTTPAnyUser(h, r) ==
    IF h.user = <<>> \/ h.password = <<>>
    THEN [handled |-> TRUE, wrote |-> <<>>]
    ELSE IF /\ r.ok
            /\ IF HasPrefix(h.password, <<"{", "S", "H", "A", "}">>)
               THEN Sha1Hex(r.password) = SubSeq(h.password, 6, Len(h.password))
               ELSE r.password = h.password
    THEN [handled |-> TRUE, wrote |-> <<>>]
    ELSE [handled |-> FALSE, wrote |-> <<StatusUnauthorized>>]

ServeHTTP(h, r) ==
    IF h.user = <<>> \/ h.password = <<>>
    THEN [handled |-> TRUE, wrote |-> <<>>]
    ELSE IF /\ r.ok
            /\ r.username = h.user
            /\ IF HasPrefix(h.password, <<"{", "S", "H", "A", "}">>)
               THEN Sha1Hex(r.password) = SubSeq(h.password, 6, Len(h.password))
               ELSE r.password = h.password
    THEN [handled |-> TRUE, wrote |-> <<>>]
    ELSE [handled |-> FALSE, wrote |-> <<StatusUnauthorized>>]

\* newHTTPBasicAuth with the user and password of the configuration, and one
\* request; r.ok is the third result of r.BasicAuth()
AuthInit ==
    /\ procs = <<>>
    /\ reply = NoReply
    /\ config = NewConfig
    /\ bulk = [kind |-> "none", queue |-> <<>>]
    /\ workers = {}
    /\ issued = <<>>
    /\ called = <<>>
    /\ reload = NoReload
    /\ result = NoResult
    /\ \E user \in {<<>>, <<"a", "d", "m", "i", "n">>} : \E password \in ConfiguredPasswords :
          \E ok \in BOOLEAN : \E ru \in {<<>>, <<"a", "d", "m", "i", "n">>, <<"g", "u", "e", "s", "t">>} :
          \E rp \in RequestPasswords :
          /\ (~ok => ru = <<>> /\ rp = <<>>)
          /\ input = [fn |-> "ServeHTTP",
                      h |-> [user |-> user, password |-> password],
                      r |-> [ok |-> ok, username |-> ru, password |-> rp]]
    /\ output = NoCall

ServeHTTPCall ==
    /\ input.fn = "ServeHTTP"
    /\ output = NoCall
    /\ \E a \in {ServeHTTP(input.h, input.r)} :
          output' = [fn |-> "ServeHTTP", handled |-> a.handled, wrote |-> a.wrote]
    /\ UNCHANGED <<procs, reply, config, bulk, workers, issued, called, reload,
                   result, input>>

AuthNext == ServeHTTPCall

AuthSpec == AuthInit /\ [][AuthNext]_vars

(***************************************************************************)
(* logger: FileLogger, NullLogger, StdLogger, SysLogger, CompositeLogger,  *)
(* NewLogger and createLogger.  A logger is a record; a file logger holds  *)
(* its files in fs, a function from 0 (the file name) and i (name.i) to    *)
(* the content.  An error is the sequence of its messages, outermost       *)
(* first; nil is the empty sequence.  received holds the payloads of the   *)
(* calls of Write that reach a logger, cleared whether a clear operation   *)
(* has reached it.                                                         *)
(***************************************************************************)
NilError == <<>>

NewTarget(kind, name, maxSize, backups) ==
    [kind |-> kind, name |-> name, maxSize |-> maxSize, backups |-> backups,
     fileSize |-> 0, fs |-> <<>>, fails |-> FALSE, received |-> <<>>,
     cleared |-> FALSE]

\* os.Rename when src exists
Rename(fs, src, dest) ==
    IF src \notin DOMAIN fs THEN fs
    ELSE [i \in (DOMAIN fs \ {src}) \cup {dest} |->
             IF i = dest THEN fs[src] ELSE fs[i]]

\* FileLogger.openFile
openFile(l, trunc) ==
    IF trunc \/ 0 \notin DOMAIN l.fs
    THEN [l EXCEPT !.fs = (0 :> <<>>) @@ l.fs]
    ELSE [l EXCEPT !.fileSize = Len(l.fs[0])]

NewFileLogger(name, maxSize, backups, fs) ==
    openFile([NewTarget("file", name, maxSize, backups) EXCEPT !.fs = fs], FALSE)

\* the loop of backupFiles, from name.i down to name.1
RECURSIVE backupShift(_, _)
backupShift(fs, i) ==
    IF i <= 0 THEN fs ELSE backupShift(Rename(fs, i, i + 1), i - 1)

backupFiles(l) ==
    [l EXCEPT !.fs = Rename(backupShift(l.fs, l.backups - 1), 0, 1)]

FileLoggerWrite(l, p) ==
    IF l.fails
    THEN [l |-> [l EXCEPT !.received = Append(@, p)], n |-> 0,
          err |-> <<"failed to write to log file", "write">>]
    ELSE TheOnly({
           TheOnly({
             [l |-> IF s.fileSize >= s.maxSize
                    THEN openFile(backupFiles(s), TRUE) ELSE s,
              n |-> Len(p), err |-> NilError] :
             s \in {IF w.fileSize >= w.maxSize
                    THEN [w EXCEPT !.fileSize = Len(w.fs[0])] ELSE w}}) :
           w \in {[l EXCEPT !.received = Append(@, p),
                            !.fs = (0 :> (l.fs[0] \o p)) @@ l.fs,
                            !.fileSize = @ + Len(p)]}})

FileLoggerClearCurLogFile(l) ==
    [l |-> [openFile(l, TRUE) EXCEPT !.cleared = TRUE], err |-> NilError]

FileLoggerClearAllLogFile(l) ==
    [l |-> [openFile([l EXCEPT !.fs = [i \in DOMAIN l.fs \ (1..l.backups) |->
                                          l.fs[i]]], TRUE)
            EXCEPT !.cleared = TRUE],
     err |-> NilError]

\* calculateReadParams that takes a negative offset for the whole file
calculateReadParamsWholeFile(offset, length, fileLen) ==
    IF offset < 0
    THEN [offset |-> 0, length |-> fileLen, shouldRead |-> TRUE]
    ELSE IF length = 0
    THEN IF offset > fileLen
         THEN [offset |-> 0, length |-> 0, shouldRead |-> FALSE]
         ELSE [offset |-> offset, length |-> fileLen - offset, shouldRead |-> TRUE]
    ELSE IF offset >= fileLen
    THEN [offset |-> 0, length |-> 0, shouldRead |-> FALSE]
    ELSE [offset |-> offset,
          length |-> IF offset + length > fileLen THEN fileLen - offset ELSE length,
          shouldRead |-> TRUE]

\* calculateReadParams
calculateReadParams(offset, length, fileLen) ==
    IF offset < 0
    THEN TheOnly({[offset |-> o, length |-> fileLen - o, shouldRead |-> TRUE] :
                     o \in {IF fileLen + offset > 0 THEN fileLen + offset ELSE 0}})
    ELSE IF length = 0
    THEN IF offset > fileLen
         THEN [offset |-> 0, length |-> 0, shouldRead |-> FALSE]
         ELSE [offset |-> offset, length |-> fileLen - offset, shouldRead |-> TRUE]
    ELSE IF offset >= fileLen
    THEN [offset |-> 0, length |-> 0, shouldRead |-> FALSE]
    ELSE [offset |-> offset,
          length |-> IF offset + length > fileLen THEN fileLen - offset ELSE length,
          shouldRead |-> TRUE]

FileLoggerReadLog(l, offset, length) ==
    IF (offset < 0 /\ length # 0) \/ (offset >= 0 /\ length < 0)
    THEN [s |-> <<>>, err |-> <<"BAD_ARGUMENTS">>]
    ELSE IF 0 \notin DOMAIN l.fs
    THEN [s |-> <<>>, err |-> <<"failed to open log file", "open">>]
    ELSE TheOnly({
           IF ~r.shouldRead THEN [s |-> <<>>, err |-> NilError]
           ELSE [s |-> Slice(l.fs[0], r.offset, r.offset + r.length),
                 err |-> NilError] :
           r \in {calculateReadParams(offset, length, Len(l.fs[0]))}})

\* ReadTailLog that moves the offset on by length, not by the bytes read
FileLoggerReadTailLogByLength(l, offset, length) ==
    IF offset < 0
    THEN [s |-> <<>>, offset |-> offset, overflow |-> FALSE,
          err |-> <<"offset should not be less than 0">>]
    ELSE IF length < 0
    THEN [s |-> <<>>, offset |-> offset, overflow |-> FALSE,
          err |-> <<"length should not be less than 0">>]
    ELSE IF offset >= Len(l.fs[0])
    THEN [s |-> <<>>, offset |-> Len(l.fs[0]), overflow |-> TRUE, err |-> NilError]
    ELSE [s |-> SubSeq(l.fs[0], offset + 1,
                       IF offset + length > Len(l.fs[0])
                       THEN Len(l.fs[0]) ELSE offset + length),
          offset |-> offset + length, overflow |-> FALSE, err |-> NilError]

FileLoggerReadTailLog(l, offset, length) ==
    IF offset < 0
    THEN [s |-> <<>>, offset |-> offset, overflow |-> FALSE,
          err |-> <<"offset should not be less than 0">>]
    ELSE IF length < 0
    THEN [s |-> <<>>, offset |-> offset, overflow |-> FALSE,
          err |-> <<"length should not be less than 0">>]
    ELSE IF 0 \notin DOMAIN l.fs
    THEN [s |-> <<>>, offset |-> 0, overflow |-> FALSE,
          err |-> <<"failed to open log file", "open">>]
    ELSE IF offset >= Len(l.fs[0])
    THEN [s |-> <<>>, offset |-> Len(l.fs[0]), overflow |-> TRUE, err |-> NilError]
    ELSE TheOnly({
           [s |-> Slice(l.fs[0], offset, offset + n), offset |-> offset + n,
            overflow |-> FALSE, err |-> NilError] :
           n \in {IF offset + length > Len(l.fs[0])
                  THEN Len(l.fs[0]) - offset ELSE length}})

\* Write of NullLogger, of StdLogger and of SysLogger
LoggerWrite(l, p) ==
    IF l.kind = "file" THEN FileLoggerWrite(l, p)
    ELSE IF l.kind = "null" \/ ~l.fails
    THEN [l |-> [l EXCEPT !.received = Append(@, p)], n |-> Len(p),
          err |-> NilError]
    ELSE [l |-> [l EXCEPT !.received = Append(@, p)], n |-> 0,
          err |-> IF l.kind \in {"stdout", "stderr"}
                  THEN <<"failed to write to std logger", "write">>
                  ELSE <<"not connected to syslog">>]

\* the read and clear operations; StdLogger and SysLogger have NullLogger's
LoggerReadLog(l, offset, length) ==
    IF l.kind = "file" THEN FileLoggerReadLog(l, offset, length)
    ELSE [s |-> <<>>, err |-> <<"NO_FILE">>]

LoggerReadTailLog(l, offset, length) ==
    IF l.kind = "file" THEN FileLoggerReadTailLog(l, offset, length)
    ELSE [s |-> <<>>, offset |-> 0, overflow |-> FALSE, err |-> <<"NO_FILE">>]

LoggerClearCurLogFile(l) ==
    IF l.kind = "file" THEN FileLoggerClearCurLogFile(l)
    ELSE [l |-> [l EXCEPT !.cleared = TRUE], err |-> <<"no log">>]

LoggerClearAllLogFile(l) ==
    IF l.kind = "file" THEN FileLoggerClearAllLogFile(l)
    ELSE [l |-> [l EXCEPT !.cleared = TRUE], err |-> <<"NO_FILE">>]

\* fmt.Errorf("...: %w", err)
Wrap(msg, err) == IF err = NilError THEN NilError ELSE <<msg>> \o err

\* a Write that gives up at the first failing logger
CompositeLoggerWriteUntilError(loggers, p) ==
    TheOnly({
      [loggers |-> [i \in DOMAIN loggers |->
                       IF \E j \in 1..(i - 1) : rs[j].err # NilError
                       THEN loggers[i] ELSE rs[i].l],
       n |-> IF loggers = <<>> THEN 0 ELSE rs[1].n,
       err |-> IF loggers = <<>> THEN NilError ELSE rs[1].err] :
      rs \in {[i \in DOMAIN loggers |-> LoggerWrite(loggers[i], p)]}})

CompositeLoggerWrite(loggers, p) ==
    TheOnly({
      [loggers |-> [i \in DOMAIN loggers |-> rs[i].l],
       n |-> IF loggers = <<>> THEN 0 ELSE rs[1].n,
       err |-> IF loggers = <<>> THEN NilError ELSE rs[1].err] :
      rs \in {[i \in DOMAIN loggers |-> LoggerWrite(loggers[i], p)]}})

CompositeLoggerReadLog(loggers, offset, length) ==
    TheOnly({[s |-> r.s,
              err |-> Wrap("failed to read log from composite logger", r.err)] :
             r \in {LoggerReadLog(loggers[1], offset, length)}})

CompositeLoggerReadTailLog(loggers, offset, length) ==
    TheOnly({[s |-> r.s, offset |-> r.offset, overflow |-> r.overflow,
              err |-> Wrap("failed to tail log from composite logger", r.err)] :
             r \in {LoggerReadTailLog(loggers[1], offset, length)}})

CompositeLoggerClearCurLogFile(loggers) ==
    TheOnly({[loggers |-> [loggers EXCEPT ![1] = r.l],
              err |-> Wrap("failed to clear current log file in composite logger",
                           r.err)] :
             r \in {LoggerClearCurLogFile(loggers[1])}})

CompositeLoggerClearAllLogFile(loggers) ==
    TheOnly({[loggers |-> [loggers EXCEPT ![1] = r.l],
              err |-> Wrap("failed to clear all log files in composite logger",
                           r.err)] :
             r \in {LoggerClearAllLogFile(loggers[1])}})

\* createLogger; the kind "panic" is the run-time panic of an index out of
\* range
createLogger(logFile, maxBytes, backups, fs) ==
    IF logFile = <<"/", "d", "e", "v", "/", "s", "t", "d", "o", "u", "t">> THEN NewTarget("stdout", <<>>, 0, 0)
    ELSE IF logFile = <<"/", "d", "e", "v", "/", "s", "t", "d", "e", "r", "r">> THEN NewTarget("stderr", <<>>, 0, 0)
    ELSE IF logFile = <<"/", "d", "e", "v", "/", "n", "u", "l", "l">> THEN NewTarget("null", <<>>, 0, 0)
    ELSE IF logFile = <<"s", "y", "s", "l", "o", "g">> THEN NewTarget("syslog", <<>>, 0, 0)
    ELSE TheOnly({
           IF HasPrefix(logFile, <<"s", "y", "s", "l", "o", "g">>) /\ Len(fields) < 2
           THEN NewTarget("panic", <<>>, 0, 0)
           ELSE IF /\ HasPrefix(logFile, <<"s", "y", "s", "l", "o", "g">>)
                   /\ Len(fields) = 2
                   /\ TrimSpace(fields[1]) = <<"s", "y", "s", "l", "o", "g">>
           THEN NewTarget("remote syslog", TrimSpace(fields[2]), 0, 0)
           ELSE IF Len(logFile) > 0
           THEN NewFileLogger(logFile, maxBytes, backups, fs)
           ELSE NewTarget("null", <<>>, 0, 0) :
           fields \in {Split(logFile, "@")}})

splitLogFile(logFile) ==
    TheOnly({[i \in DOMAIN files |-> TrimSpace(files[i])] :
                files \in {Split(logFile, ",")}})

\* NewLogger: the loggers of the composite; failing names the loggers whose
\* writer reports an error
NewLogger(logFile, maxBytes, backups, fs, failing) ==
    TheOnly({[i \in DOMAIN files |->
                 [createLogger(files[i], maxBytes, backups, fs)
                     EXCEPT !.fails = i \in failing]] :
             files \in {splitLogFile(logFile)}})

LogFiles ==
    {<<>>, <<"/", "d", "e", "v", "/", "s", "t", "d", "o", "u", "t">>, <<"/", "d", "e", "v", "/", "s", "t", "d", "e", "r", "r">>, <<"/", "d", "e", "v", "/", "n", "u", "l", "l">>, <<"s", "y", "s", "l", "o", "g">>,
     <<"s", "y", "s", "l", "o", "g", "@", "h", ":", "1">>, <<"s", "y", "s", "l", "o", "g", " ", "@", " ", "h", ":", "1">>, <<"s", "y", "s", "l", "o", "g", "d", "@", "h", ":", "1">>, <<"s", "y", "s", "l", "o", "g", "@", "h", "@", "1">>,
     <<"s", "y", "s", "l", "o", "g", ".", "l", "o", "g">>, <<"a", ".", "l", "o", "g">>,
     <<"a", ".", "l", "o", "g", ",", "b", ".", "l", "o", "g">>, <<"a", ".", "l", "o", "g", ",", " ", "/", "d", "e", "v", "/", "s", "t", "d", "o", "u", "t">>, <<"/", "d", "e", "v", "/", "n", "u", "l", "l", ",", "a", ".", "l", "o", "g">>,
     <<"a", ".", "l", "o", "g", ",", "s", "y", "s", "l", "o", "g", ".", "l", "o", "g">>, <<"s", "y", "s", "l", "o", "g", ",", "a", ".", "l", "o", "g", ",", "b", ".", "l", "o", "g">>}

Payloads == {<<"a">>, <<"b", "c">>}

NoLast == [op |-> "none", err |-> NilError]

LoggerInit ==
    /\ procs = <<>>
    /\ reply = NoReply
    /\ config = NewConfig
    /\ bulk = [kind |-> "none", queue |-> <<>>]
    /\ workers = {}
    /\ issued = <<>>
    /\ called = <<>>
    /\ reload = NoReload
    /\ result = NoResult
    /\ \E logFile \in LogFiles : \E maxBytes \in {1, 2, 3} : \E backups \in {0, 1, 2} :
          \E failing \in {{}, {1}, {2}} : \E fs \in {<<>>, 0 :> <<"x", "y">>} :
          /\ (maxBytes = 3 \/ fs # <<>>) => (logFile = <<"a", ".", "l", "o", "g">> /\ failing = {})
          /\ input = [fn |-> "NewLogger", logFile |-> logFile,
                      maxBytes |-> maxBytes, backups |-> backups,
                      failing |-> failing, fs |-> fs]
    /\ output = NoCall

loggerVars == <<procs, reply, config, bulk, workers, issued, called, reload,
                result, input>>

createLoggerCall ==
    /\ input.fn = "NewLogger"
    /\ output = NoCall
    /\ \E l \in {createLogger(input.logFile, input.maxBytes, input.backups,
                              input.fs)} :
          output' = [fn |-> "createLogger", logger |-> l]
    /\ UNCHANGED loggerVars

NewLoggerCall ==
    /\ input.fn = "NewLogger"
    /\ output = NoCall
    /\ \E ls \in {NewLogger(input.logFile, input.maxBytes, input.backups,
                            input.fs, input.failing)} :
          output' = [fn |-> "NewLogger",
                     panicked |-> \E i \in DOMAIN ls : ls[i].kind = "panic",
                     loggers |-> ls, writes |-> <<>>, last |-> NoLast]
    /\ UNCHANGED loggerVars

LoggerBuilt == output.fn = "NewLogger" /\ ~output.panicked

CompositeLoggerWriteCall ==
    /\ LoggerBuilt
    /\ Len(output.writes) < MaxWrites
    /\ \E p \in Payloads : \E r \in {CompositeLoggerWrite(output.loggers, p)} :
          output' = [output EXCEPT !.loggers = r.loggers,
                        !.writes = Append(@, p),
                        !.last = [op |-> "Write", n |-> r.n, err |-> r.err]]
    /\ UNCHANGED loggerVars

CompositeLoggerReadLogCall ==
    /\ LoggerBuilt
    /\ \E offset \in {0, -1} :
          \E r \in {CompositeLoggerReadLog(output.loggers, offset, 0)} :
          output' = [output EXCEPT
                        !.last = [op |-> "ReadLog", s |-> r.s, err |-> r.err,
                                  offset |-> offset, length |-> 0]]
    /\ UNCHANGED loggerVars

CompositeLoggerReadTailLogCall ==
    /\ LoggerBuilt
    /\ \E r \in {CompositeLoggerReadTailLog(output.loggers, 0, 2)} :
          output' = [output EXCEPT
                        !.last = [op |-> "ReadTailLog", s |-> r.s, err |-> r.err,
                                  offset |-> r.offset, overflow |-> r.overflow]]
    /\ UNCHANGED loggerVars

CompositeLoggerClearCurLogFileCall ==
    /\ LoggerBuilt
    /\ \E r \in {CompositeLoggerClearCurLogFile(output.loggers)} :
          output' = [output EXCEPT !.loggers = r.loggers,
                        !.last = [op |-> "ClearCurLogFile", err |-> r.err]]
    /\ UNCHANGED loggerVars

CompositeLoggerClearAllLogFileCall ==
    /\ LoggerBuilt
    /\ \E r \in {CompositeLoggerClearAllLogFile(output.loggers)} :
          output' = [output EXCEPT !.loggers = r.loggers,
                        !.last = [op |-> "ClearAllLogFile", err |-> r.err]]
    /\ UNCHANGED loggerVars

LoggerNext ==
    \/ createLoggerCall
    \/ NewLoggerCall
    \/ CompositeLoggerWriteCall
    \/ CompositeLoggerReadLogCall
    \/ CompositeLoggerReadTailLogCall
    \/ CompositeLoggerClearCurLogFileCall
    \/ CompositeLoggerClearAllLogFileCall

LoggerSpec == LoggerInit /\ [][LoggerNext]_vars

(***************************************************************************)
(* cmd/supervisord: the goroutines of initSignals.  Every turn of the loop *)
(* of runServer makes a Supervisor and a goroutine that waits for SIGINT   *)
(* or SIGTERM on a channel of its own; signal.Notify delivers the signal   *)
(* to every channel.  output.handlers[i] is where the goroutine of turn i  *)
(* is; procs holds the children of the Supervisor of the last turn, the    *)
(* children of the earlier Supervisors were stopped by the restart.        *)
(***************************************************************************)
HandlerState(pc, handlers, signalled, exitedBy) ==
    [fn |-> "initSignals", pc |-> pc, handlers |-> handlers,
     signalled |-> signalled, exitedBy |-> exitedBy]

handlerVars == <<reply, config, bulk, workers, issued, called, reload, result,
                 input>>

\* the Supervisor the loop of runServer made last
ActiveSupervisor == Len(output.handlers)

HandlerInit ==
    /\ procs \in [{ProgA, ProgB} -> {NewProcess(BulkProgramConfig)}]
    /\ reply = NoReply
    /\ config = NewConfig
    /\ bulk = [kind |-> "none", queue |-> <<>>]
    /\ workers = {}
    /\ issued = <<>>
    /\ called = <<>>
    /\ reload = NoReload
    /\ result = NoResult
    /\ input = [fn |-> "runServer"]
    /\ output = HandlerState("runServer", <<>>, FALSE, 0)

\* runServer: NewSupervisor, initSignals and a Reload that starts the children
HandlerServerLoop ==
    /\ output.fn = "initSignals"
    /\ output.exitedBy = 0
    /\ output.pc = "runServer"
    /\ output' = [output EXCEPT !.pc = "WaitForExit",
                                !.handlers = Append(@, "waiting")]
    /\ procs' = [p \in DOMAIN procs |->
                    [procs[p] EXCEPT !.state = "Running", !.pid = 1]]
    /\ UNCHANGED handlerVars

\* the restart command: the children are stopped, WaitForExit returns
HandlerRestart ==
    /\ output.fn = "initSignals"
    /\ output.exitedBy = 0
    /\ output.pc = "WaitForExit"
    /\ Len(output.handlers) <= MaxServerRestarts
    /\ output' = [output EXCEPT !.pc = "runServer"]
    /\ procs' = [p \in DOMAIN procs |->
                    [procs[p] EXCEPT !.state = "Stopped", !.pid = 0]]
    /\ UNCHANGED handlerVars

\* SIGINT or SIGTERM is sent to the supervisor
SignalArrives ==
    /\ output.fn = "initSignals"
    /\ output.exitedBy = 0
    /\ output.handlers # <<>>
    /\ ~output.signalled
    /\ output' = [output EXCEPT !.signalled = TRUE]
    /\ UNCHANGED <<procs, handlerVars>>

\* sig := <-sigs in the goroutine of turn i
HandlerReceives(i) ==
    /\ output.fn = "initSignals"
    /\ output.exitedBy = 0
    /\ i \in DOMAIN output.handlers
    /\ output.signalled
    /\ output.handlers[i] = "waiting"
    /\ output' = [output EXCEPT !.handlers[i] = "StopAllProcesses"]
    /\ UNCHANGED <<procs, handlerVars>>

\* StopAllProcesses of the Supervisor of turn i stops one more child
HandlerStops(i, p) ==
    /\ output.fn = "initSignals"
    /\ output.exitedBy = 0
    /\ i \in DOMAIN output.handlers
    /\ output.handlers[i] = "StopAllProcesses"
    /\ i = ActiveSupervisor
    /\ output.pc = "WaitForExit"
    /\ procs[p].state # "Stopped"
    /\ procs' = [procs EXCEPT ![p].state = "Stopped", ![p].pid = 0]
    /\ UNCHANGED <<output, handlerVars>>

\* StopAllProcesses of the Supervisor of turn i returns: none of its children
\* is left running
HandlerStopped(i) ==
    /\ output.fn = "initSignals"
    /\ output.exitedBy = 0
    /\ i \in DOMAIN output.handlers
    /\ output.handlers[i] = "StopAllProcesses"
    /\ (i = ActiveSupervisor /\ output.pc = "WaitForExit") =>
          \A p \in DOMAIN procs : procs[p].state = "Stopped"
    /\ output' = [output EXCEPT !.handlers[i] = "os.Exit"]
    /\ UNCHANGED <<procs, handlerVars>>

\* os.Exit(-1) in the goroutine of turn i
HandlerExits(i) ==
    /\ output.fn = "initSignals"
    /\ output.exitedBy = 0
    /\ i \in DOMAIN output.handlers
    /\ output.handlers[i] = "os.Exit"
    /\ output' = [output EXCEPT !.exitedBy = i]
    /\ UNCHANGED <<procs, handlerVars>>

HandlerNext ==
    \/ HandlerServerLoop
    \/ HandlerRestart
    \/ SignalArrives
    \/ \E i \in 1..(MaxServerRestarts + 1) : HandlerReceives(i)
    \/ \E i \in 1..(MaxServerRestarts + 1) : \E p \in {ProgA, ProgB} : HandlerStops(i, p)
    \/ \E i \in 1..(MaxServerRestarts + 1) : HandlerStopped(i)
    \/ \E i \in 1..(MaxServerRestarts + 1) : HandlerExits(i)

HandlerSpec == HandlerInit /\ [][HandlerNext]_vars

(***************************************************************************)
(* StringExpression.Eval, one turn of its loop at a time.  output holds    *)
(* the string s of the loop, whether Eval has returned and with which      *)
(* error; turn tells consecutive turns apart.                              *)
(***************************************************************************)
\* one turn of the loop of Eval on the string s
EvalTurnOf(env, s) ==
    LET start == Index(s, <<"%", "(">>)
        end   == FindEnd(s, start + 1)
        typ   == FindTyp(s, end + 1)
        n     == Len(s)
        varName == Slice(s, start + 2, end)
    IN  IF start = -1 THEN [s |-> s, err |-> "nil", returned |-> TRUE]
        ELSE IF typ < n
        THEN IF varName \notin DOMAIN env
             THEN [s |-> <<>>, err |-> "EnvVarNotFound", returned |-> TRUE]
             ELSE IF At(s, typ) = "d"
             THEN IF ~AtoiOk(env[varName])
                  THEN [s |-> <<>>, err |-> "EnvVarConversion", returned |-> TRUE]
                  ELSE [s |-> Slice(s, 0, start)
                              \o SprintfInt(Slice(s, end + 1, typ), Atoi(env[varName]))
                              \o Slice(s, typ + 1, n),
                        err |-> "nil", returned |-> FALSE]
             ELSE IF At(s, typ) = "s"
             THEN [s |-> Slice(s, 0, start) \o env[varName] \o Slice(s, typ + 1, n),
                   err |-> "nil", returned |-> FALSE]
             ELSE [s |-> <<>>, err |-> "TypeNotImplemented", returned |-> TRUE]
        ELSE [s |-> <<>>, err |-> "InvalidStringExpr", returned |-> TRUE]

\* environments: plain values, a value that names another variable, a value
\* that names its own variable, two values that name each other
LoopEnvs ==
    { (<<"x">> :> <<"1">>) @@ (<<"y">> :> <<"v">>),
      (<<"x">> :> <<"%", "(", "y", ")", "s">>) @@ (<<"y">> :> <<"v">>),
      (<<"x">> :> <<"%", "(", "x", ")", "s">>) @@ (<<"y">> :> <<"v">>),
      (<<"x">> :> <<"%", "(", "y", ")", "s">>) @@ (<<"y">> :> <<"%", "(", "x", ")", "s">>),
      (<<"x">> :> <<"%", "(", "y", ")", "d">>) @@ (<<"y">> :> <<"7">>) }

LoopInputs ==
    { <<"p", "l", "a", "i", "n">>, <<"%", "(", "x", ")", "s">>, <<"%", "(", "x", ")", "d">>, <<"%", "(", "y", ")", "s">>, <<"a", "%", "(", "x", ")", "s", "/", "%", "(", "y", ")", "s">>,
      <<"%", "(", "y", ")", "s", "%", "(", "x", ")", "s">>, <<"%", "(", "z", ")", "s">>, <<"%", "(", "x">>, <<"%", "(", "x", ")", "q">>, <<"%", "(", "x", ")", "0", "2", "d">> }

EvalLoopInit ==
    /\ procs = <<>>
    /\ reply = NoReply
    /\ config = NewConfig
    /\ bulk = [kind |-> "none", queue |-> <<>>]
    /\ workers = {}
    /\ issued = <<>>
    /\ called = <<>>
    /\ reload = NoReload
    /\ result = NoResult
    /\ \E env \in LoopEnvs : \E s \in LoopInputs :
          /\ input = [fn |-> "Eval", env |-> env, s |-> s]
          /\ output = [fn |-> "Eval", s |-> s, err |-> "nil", returned |-> FALSE,
                       turn |-> 0]

EvalTurn ==
    /\ input.fn = "Eval"
    /\ output.fn = "Eval"
    /\ ~output.returned
    /\ \E r \in {EvalTurnOf(input.env, output.s)} :
          output' = [fn |-> "Eval", s |-> r.s, err |-> r.err,
                     returned |-> r.returned, turn |-> 1 - output.turn]
    /\ UNCHANGED <<procs, reply, config, bulk, workers, issued, called, reload,
                   result, input>>

EvalLoopNext == EvalTurn

\* a call that has not returned goes on with its next turn
EvalLoopSpec == EvalLoopInit /\ [][EvalLoopNext]_vars /\ WF_vars(EvalTurn)

(***************************************************************************)
(* Config.Load called twice on one Config: the file holds [program:a] and, *)
(* optionally, [program-default]; between the two calls the keys of        *)
(* [program:a] change.  output.before is the entry of a after the first    *)
(* call.                                                                   *)
(***************************************************************************)
AgainSections ==
    {(KeyCommand :> cmd) @@ pr @@ dir :
        cmd \in {<<"x">>, <<"y">>},
        pr \in Optional(KeyPriority, {<<"5">>, <<"7">>}),
        dir \in Optional(KeyDirectory, {<<"/">>})}

AgainFile(a, d) == [readable |-> TRUE, sections |-> (SectionA :> a) @@ d]

LoadAgainInit ==
    /\ procs = <<>>
    /\ reply = NoReply
    /\ config = NewConfig
    /\ bulk = [kind |-> "none", queue |-> <<>>]
    /\ workers = {}
    /\ issued = <<>>
    /\ called = <<>>
    /\ reload = NoReload
    /\ result = NoResult
    /\ \E a1 \in AgainSections : \E a2 \in AgainSections :
          \E d \in OptionalSection(ProgramDefaultName, {KeyPriority :> <<"5">>}) :
          input = [fn |-> "LoadAgain", file |-> AgainFile(a1, d),
                   next |-> AgainFile(a2, d)]
    /\ output = NoCall

\* c.Load() on the new Config
LoadFirstCall ==
    /\ input.fn = "LoadAgain"
    /\ output = NoCall
    /\ \E names \in SectionOrders(input.file.sections) :
          \E r \in {Load(config, input.file, names)} :
          /\ config' = r.config
          /\ output' = [fn |-> "Load", loadedPrograms |-> r.loadedPrograms,
                        err |-> r.err]
    /\ UNCHANGED <<procs, reply, bulk, workers, issued, called, reload, result,
                   input>>

\* c.Load() on the same Config, after the file has changed
LoadAgainCall ==
    /\ input.fn = "LoadAgain"
    /\ output.fn = "Load"
    /\ \E names \in SectionOrders(input.next.sections) :
          \E r \in {Load(config, input.next, names)} :
          /\ config' = r.config
          /\ output' = [fn |-> "LoadAgain", loadedPrograms |-> r.loadedPrograms,
                        err |-> r.err, before |-> config.entries[<<"a">>]]
    /\ UNCHANGED <<procs, reply, bulk, workers, issued, called, reload, result,
                   input>>

LoadAgainNext == LoadFirstCall \/ LoadAgainCall

LoadAgainSpec == LoadAgainInit /\ [][LoadAgainNext]_vars

(***************************************************************************)
(* rpc: XMLRPC.startHTTPServer.  The mux is the set of its routes, each a  *)
(* pattern and whether its handler is wrapped by newHTTPBasicAuth.  A      *)
(* pattern that ends in / takes every path below it, any other pattern the *)
(* path equal to it, and the longest pattern wins.                         *)
(***************************************************************************)
Route(pattern, wrapped) == [pattern |-> pattern, wrapped |-> wrapped]

\* the routes of startHTTPServer; programs are the names of the programs of
\* the configuration that set stdout_logfile
startHTTPServer(programs) ==
    { Route(<<"/", "R", "P", "C", "2">>, TRUE),
      Route(<<"/", "p", "r", "o", "g", "r", "a", "m", "/">>, TRUE),
      Route(<<"/", "s", "u", "p", "e", "r", "v", "i", "s", "o", "r", "/">>, TRUE),
      Route(<<"/", "l", "o", "g", "t", "a", "i", "l", "/">>, TRUE),
      Route(<<"/">>, TRUE),
      Route(<<"/", "c", "o", "n", "f", "/">>, TRUE),
      Route(<<"/", "c", "o", "n", "f", "F", "i", "l", "e">>, FALSE),
      Route(<<"/", "l", "o", "g">>, FALSE),
      Route(<<"/", "m", "e", "t", "r", "i", "c", "s">>, FALSE) }
    \cup {Route(<<"/", "l", "o", "g", "/">> \o realName \o <<"/">>, FALSE) : realName \in programs}

\* http.ServeMux: whether the pattern takes the path
PatternMatches(pattern, path) ==
    IF pattern[Len(pattern)] = "/" THEN HasPrefix(path, pattern)
    ELSE path = pattern

\* http.ServeMux: the route that serves the path
ServeMux(mux, path) ==
    CHOOSE r \in mux :
        /\ PatternMatches(r.pattern, path)
        /\ \A o \in mux : PatternMatches(o.pattern, path) =>
              Len(o.pattern) <= Len(r.pattern)

\* http.Serve: the request goes to the handler of its route, through
\* httpBasicAuth when the route is wrapped
Serve(mux, h, r) ==
    TheOnly({[pattern |-> route.pattern,
              handled |-> IF route.wrapped THEN ServeHTTP(h, r).handled ELSE TRUE,
              wrote |-> IF route.wrapped THEN ServeHTTP(h, r).wrote ELSE <<>>] :
             route \in {ServeMux(mux, r.path)}})

RequestPaths ==
    { <<"/", "R", "P", "C", "2">>, <<"/", "p", "r", "o", "g", "r", "a", "m", "/", "l", "i", "s", "t">>, <<"/", "s", "u", "p", "e", "r", "v", "i", "s", "o", "r", "/", "s", "h", "u", "t", "d", "o", "w", "n">>, <<"/", "l", "o", "g", "t", "a", "i", "l", "/", "a">>,
      <<"/", "c", "o", "n", "f", "/", "a">>, <<"/", "c", "o", "n", "f", "F", "i", "l", "e">>, <<"/", "l", "o", "g">>, <<"/", "l", "o", "g", "/", "a", "/", "o", "u", "t", ".", "l", "o", "g">>, <<"/", "m", "e", "t", "r", "i", "c", "s">>,
      <<"/">>, <<"/", "i", "n", "d", "e", "x", ".", "h", "t", "m", "l">> }

\* the credentials of a request: none, the configured ones, a wrong password
RequestCredentials ==
    { [ok |-> FALSE, username |-> <<>>, password |-> <<>>],
      [ok |-> TRUE, username |-> <<"a", "d", "m", "i", "n">>, password |-> <<"s", "e", "c", "r", "e", "t">>],
      [ok |-> TRUE, username |-> <<"a", "d", "m", "i", "n">>, password |-> <<"w", "r", "o", "n", "g">>] }

RouteInit ==
    /\ procs = <<>>
    /\ reply = NoReply
    /\ config = NewConfig
    /\ bulk = [kind |-> "none", queue |-> <<>>]
    /\ workers = {}
    /\ issued = <<>>
    /\ called = <<>>
    /\ reload = NoReload
    /\ result = NoResult
    /\ \E user \in {<<>>, <<"a", "d", "m", "i", "n">>} : \E password \in {<<>>, <<"s", "e", "c", "r", "e", "t">>} :
          \E programs \in SUBSET {<<"a">>} : \E path \in RequestPaths :
          \E c \in RequestCredentials :
          input = [fn |-> "startHTTPServer",
                   h |-> [user |-> user, password |-> password],
                   programs |-> programs,
                   r |-> [path |-> path, ok |-> c.ok, username |-> c.username,
                          password |-> c.password]]
    /\ output = NoCall

ServeCall ==
    /\ input.fn = "startHTTPServer"
    /\ output = NoCall
    /\ \E a \in {Serve(startHTTPServer(input.programs), input.h, input.r)} :
          output' = [fn |-> "Serve", pattern |-> a.pattern, handled |-> a.handled,
                     wrote |-> a.wrote]
    /\ UNCHANGED <<procs, reply, config, bulk, workers, issued, called, reload,
                   result, input>>

RouteNext == ServeCall

RouteSpec == RouteInit /\ [][RouteNext]_vars

(***************************************************************************)
(* logger: BackgroundWriteCloser.  logChannel has no buffer, so a Write of *)
(* the caller and the receive of the goroutine are one step.  output holds *)
(* the payloads whose Write has returned, the payload the goroutine holds, *)
(* and the underlying writer: what was written to it and whether it is     *)
(* closed.                                                                 *)
(***************************************************************************)
NewBackgroundWriteCloser ==
    [fn |-> "BackgroundWriteCloser", caller |-> "open", goroutine |-> "receive",
     b |-> <<>>, channelClosed |-> FALSE, returned |-> <<>>, written |-> <<>>,
     failed |-> <<>>, closed |-> FALSE]

backgroundVars == <<procs, reply, config, bulk, workers, issued, called, reload,
                    result, input>>

BackgroundInit ==
    /\ procs = <<>>
    /\ reply = NoReply
    /\ config = NewConfig
    /\ bulk = [kind |-> "none", queue |-> <<>>]
    /\ workers = {}
    /\ issued = <<>>
    /\ called = <<>>
    /\ reload = NoReload
    /\ result = NoResult
    /\ input = [fn |-> "BackgroundWriteCloser"]
    /\ output = NewBackgroundWriteCloser

\* Write: bw.logChannel <- p meets b, ok := <-bw.logChannel, and Write returns
BackgroundWrite(p) ==
    /\ output.fn = "BackgroundWriteCloser"
    /\ output.caller = "open"
    /\ output.goroutine = "receive"
    /\ Len(output.returned) < MaxWrites
    /\ output' = [output EXCEPT !.goroutine = "write", !.b = p,
                                !.returned = Append(@, p)]
    /\ UNCHANGED backgroundVars

\* the goroutine: bw.writeCloser.Write(b), whose error is dropped
BackgroundGoroutineWrites ==
    /\ output.fn = "BackgroundWriteCloser"
    /\ output.goroutine = "write"
    /\ output' = [output EXCEPT
                     !.goroutine = "receive", !.b = <<>>,
                     !.written = IF output.closed THEN @ ELSE Append(@, output.b),
                     !.failed = IF output.closed THEN Append(@, output.b) ELSE @]
    /\ UNCHANGED backgroundVars

\* the goroutine: the receive from the closed channel ends the loop
BackgroundGoroutineEnds ==
    /\ output.fn = "BackgroundWriteCloser"
    /\ output.goroutine = "receive"
    /\ output.channelClosed
    /\ output' = [output EXCEPT !.goroutine = "done"]
    /\ UNCHANGED backgroundVars

\* Close: close(bw.logChannel)
BackgroundCloseChannel ==
    /\ output.fn = "BackgroundWriteCloser"
    /\ output.caller = "open"
    /\ output' = [output EXCEPT !.caller = "Close", !.channelClosed = TRUE]
    /\ UNCHANGED backgroundVars

\* Close: bw.writeCloser.Close()
BackgroundCloseWriter ==
    /\ output.fn = "BackgroundWriteCloser"
    /\ output.caller = "Close"
    /\ output' = [output EXCEPT !.caller = "closed", !.closed = TRUE]
    /\ UNCHANGED backgroundVars

BackgroundNext ==
    \/ \E p \in {<<"a">>, <<"b", "c">>, <<"d">>} : BackgroundWrite(p)
    \/ BackgroundGoroutineWrites
    \/ BackgroundGoroutineEnds
    \/ BackgroundCloseChannel
    \/ BackgroundCloseWriter

BackgroundSpec == BackgroundInit /\ [][BackgroundNext]_vars

(***************************************************************************)
(* logger: a reader that follows a growing log file with ReadTailLog.      *)
(* output holds the file logger, the offset the reader passes next, the    *)
(* chunks it has got so far, one after the other, and the last call.       *)
(***************************************************************************)
TailLengths == {1, 2, 5}

tailVars == <<procs, reply, config, bulk, workers, issued, called, reload,
              result, input>>

TailInit ==
    /\ procs = <<>>
    /\ reply = NoReply
    /\ config = NewConfig
    /\ bulk = [kind |-> "none", queue |-> <<>>]
    /\ workers = {}
    /\ issued = <<>>
    /\ called = <<>>
    /\ reload = NoReload
    /\ result = NoResult
    /\ input = [fn |-> "ReadTailLog"]
    /\ \E fs \in {<<>>, 0 :> <<"x", "y">>} :
          output = [fn |-> "ReadTailLog",
                    l |-> NewFileLogger(<<"a", ".", "l", "o", "g">>, 0, 0, fs),
                    grown |-> 0, offset |-> 0, chunks |-> <<>>,
                    last |-> [op |-> "none"]]

\* the program writes to its log file
TailGrows(p) ==
    /\ output.fn = "ReadTailLog"
    /\ output.grown < MaxWrites
    /\ output' = [output EXCEPT !.l.fs = (0 :> (output.l.fs[0] \o p)) @@ @,
                                !.grown = @ + 1]
    /\ UNCHANGED tailVars

\* ReadTailLog with the offset the call before returned
TailReads(length) ==
    /\ output.fn = "ReadTailLog"
    /\ \E r \in {FileLoggerReadTailLog(output.l, output.offset, length)} :
          output' = [output EXCEPT
                        !.offset = r.offset,
                        !.chunks = @ \o r.s,
                        !.last = [op |-> "ReadTailLog", offset |-> output.offset,
                                  length |-> length,
                                  fileLen |-> Len(output.l.fs[0]),
                                  s |-> r.s, newOffset |-> r.offset,
                                  overflow |-> r.overflow, err |-> r.err]]
    /\ UNCHANGED tailVars

\* ReadTailLog with a negative offset or length, by another caller
TailReadsBadly(offset, length) ==
    /\ output.fn = "ReadTailLog"
    /\ offset < 0 \/ length < 0
    /\ \E r \in {FileLoggerReadTailLog(output.l, offset, length)} :
          output' = [output EXCEPT
                        !.last = [op |-> "ReadTailLog", offset |-> offset,
                                  length |-> length,
                                  fileLen |-> Len(output.l.fs[0]),
                                  s |-> r.s, newOffset |-> r.offset,
                                  overflow |-> r.overflow, err |-> r.err]]
    /\ UNCHANGED tailVars

TailNext ==
    \/ \E p \in Payloads : TailGrows(p)
    \/ \E length \in TailLengths : TailReads(length)
    \/ \E offset \in {-1, 0, 1} : \E length \in {-1, 0, 1} :
          TailReadsBadly(offset, length)

TailSpec == TailInit /\ [][TailNext]_vars

(***************************************************************************)
(* logger: FileLogger.ReadLog on a file of up to five bytes, with every    *)
(* offset from -6 to 6 and every length from -2 to 6.                      *)
(***************************************************************************)
ReadLogFiles == {<<>>, 0 :> <<>>, 0 :> <<"a">>, 0 :> <<"a", "b", "c">>, 0 :> <<"a", "b", "c", "d", "e">>}

ReadLogInit ==
    /\ procs = <<>>
    /\ reply = NoReply
    /\ config = NewConfig
    /\ bulk = [kind |-> "none", queue |-> <<>>]
    /\ workers = {}
    /\ issued = <<>>
    /\ called = <<>>
    /\ reload = NoReload
    /\ result = NoResult
    /\ \E fs \in ReadLogFiles : \E offset \in -6..6 : \E length \in -2..6 :
          input = [fn |-> "ReadLog", fs |-> fs, offset |-> offset,
                   length |-> length]
    /\ output = NoCall

ReadLogCall ==
    /\ input.fn = "ReadLog"
    /\ output = NoCall
    /\ \E r \in {FileLoggerReadLog([fs |-> input.fs], input.offset, input.length)} :
          output' = [fn |-> "ReadLog", s |-> r.s, err |-> r.err]
    /\ UNCHANGED <<procs, reply, config, bulk, workers, issued, called, reload,
                   result, input>>

ReadLogNext == ReadLogCall

ReadLogSpec == ReadLogInit /\ [][ReadLogNext]_vars

(***************************************************************************)
(* supervisor: the resource limits of the process (rlimit.go).  A limit is *)
(* a pair of a soft limit Cur and a hard limit Max with Cur <= Max; the    *)
(* limits of the process are a record with one pair for each resource.     *)
(***************************************************************************)
MaxLimit == 2

Resources == {"RLIMIT_NOFILE", "RLIMIT_NPROC"}

Rlimits == {l \in [Cur : 0..MaxLimit, Max : 0..MaxLimit] : l.Cur <= l.Max}

\* syscall.Setrlimit: the soft limit may not exceed the hard limit, and only
\* a privileged process may raise its hard limit
SetrlimitOk(limits, privileged, resource, limit) ==
    /\ limit.Cur <= limit.Max
    /\ (limit.Max > limits[resource].Max => privileged)

\* Supervisor.getMinRequiredRes
getMinRequiredRes(entries, resourceName) ==
    IF "supervisord" \in DOMAIN entries
    THEN LET intVal == GetInt(entries["supervisord"], resourceName, 0)
         IN  IF intVal < 0 THEN [value |-> 0, err |-> "NegativeValue"]
             ELSE IF intVal > 0 THEN [value |-> intVal, err |-> "nil"]
             ELSE [value |-> 0, err |-> "NoSuchKey"]
    ELSE [value |-> 0, err |-> "NoSupervisordSection"]

\* Supervisor.checkMinLimit
checkMinLimit(limits, privileged, resource, minRequiredSource) ==
    LET limit == limits[resource]
    IN  IF minRequiredSource > limit.Max
        THEN [limits |-> limits, err |-> "LimitExceedsHard"]
        ELSE IF limit.Cur >= minRequiredSource
        THEN [limits |-> limits, err |-> "nil"]
        ELSE LET raised == [limit EXCEPT !.Cur = limit.Max]
             IN  IF SetrlimitOk(limits, privileged, "RLIMIT_NOFILE", raised)
                 THEN [limits |-> [limits EXCEPT !["RLIMIT_NOFILE"] = raised],
                       err |-> "nil"]
                 ELSE [limits |-> limits, err |-> "FailedToSetLimit"]

\* Supervisor.checkRequiredResources
checkRequiredResources(entries, limits, privileged) ==
    LET minfds == getMinRequiredRes(entries, "minfds")
        minprocs == getMinRequiredRes(entries, "minprocs")
    IN  IF minfds.err = "nil"
        THEN checkMinLimit(limits, privileged, "RLIMIT_NOFILE", minfds.value)
        ELSE IF minprocs.err = "nil"
        THEN checkMinLimit(limits, privileged, "RLIMIT_NPROC", minprocs.value)
        ELSE [limits |-> limits, err |-> "nil"]

\* the values of minfds and minprocs in the configuration file; the empty
\* string stands for a key that is not there
MinValues == {<<>>, <<"-", "1">>, <<"1">>, <<"2">>, <<"3">>}

MinKeyValues(name, value) == IF value = <<>> THEN <<>> ELSE name :> value

RlimitEntries(section, minfds, minprocs) ==
    IF section
    THEN "supervisord" :>
            [NewEntry EXCEPT !.keyValues = MinKeyValues("minfds", minfds)
                                            @@ MinKeyValues("minprocs", minprocs)]
    ELSE <<>>

RlimitInit ==
    /\ procs = <<>>
    /\ reply = NoReply
    /\ config = NewConfig
    /\ bulk = [kind |-> "none", queue |-> <<>>]
    /\ workers = {}
    /\ issued = <<>>
    /\ called = <<>>
    /\ reload = NoReload
    /\ result = NoResult
    /\ \E limits \in [Resources -> Rlimits] : \E privileged \in BOOLEAN :
          \/ \E section \in BOOLEAN : \E minfds \in MinValues :
             \E minprocs \in MinValues :
                input = [fn |-> "checkRequiredResources", limits |-> limits,
                         privileged |-> privileged, section |-> section,
                         minfds |-> minfds, minprocs |-> minprocs]
          \/ \E resource \in Resources : \E min \in 1..(MaxLimit + 1) :
                input = [fn |-> "checkMinLimit", limits |-> limits,
                         privileged |-> privileged, resource |-> resource,
                         min |-> min]
    /\ output = NoCall

CheckRequiredResourcesCall ==
    /\ input.fn = "checkRequiredResources"
    /\ output = NoCall
    /\ \E r \in {checkRequiredResources(
                    RlimitEntries(input.section, input.minfds, input.minprocs),
                    input.limits, input.privileged)} :
          output' = [fn |-> "checkRequiredResources", limits |-> r.limits,
                     err |-> r.err]
    /\ UNCHANGED <<procs, reply, config, bulk, workers, issued, called, reload,
                   result, input>>

CheckMinLimitCall ==
    /\ input.fn = "checkMinLimit"
    /\ output = NoCall
    /\ \E r \in {checkMinLimit(input.limits, input.privileged, input.resource,
                               input.min)} :
          output' = [fn |-> "checkMinLimit", limits |-> r.limits, err |-> r.err]
    /\ UNCHANGED <<procs, reply, config, bulk, workers, issued, called, reload,
                   result, input>>

RlimitNext ==
    \/ CheckRequiredResourcesCall
    \/ CheckMinLimitCall

RlimitSpec == RlimitInit /\ [][RlimitNext]_vars

(***************************************************************************)
(* util: IsSameStringArray on every pair of lists of up to MaxArrayLen     *)
(* strings out of three.                                                   *)
(***************************************************************************)
\* util.IsSameStringArray
IsSameStringArray(arr1, arr2) ==
    IF Len(arr1) # Len(arr2) THEN FALSE
    ELSE \A i \in 1..Len(arr1) : Contains(arr2, arr1[i])

MaxArrayLen == 3

ArrayStrings == {"x", "y", "z"}

StringArrays == UNION {[1..n -> ArrayStrings] : n \in 0..MaxArrayLen}

SameArrayInit ==
    /\ procs = <<>>
    /\ reply = NoReply
    /\ config = NewConfig
    /\ bulk = [kind |-> "none", queue |-> <<>>]
    /\ workers = {}
    /\ issued = <<>>
    /\ called = <<>>
    /\ reload = NoReload
    /\ result = NoResult
    /\ \E arr1 \in StringArrays : \E arr2 \in StringArrays :
          input = [fn |-> "IsSameStringArray", arr1 |-> arr1, arr2 |-> arr2]
    /\ output = NoCall

IsSameStringArrayCall ==
    /\ input.fn = "IsSameStringArray"
    /\ output = NoCall
    /\ output' = [fn |-> "IsSameStringArray",
                  same |-> IsSameStringArray(input.arr1, input.arr2)]
    /\ UNCHANGED <<procs, reply, config, bulk, workers, issued, called, reload,
                   result, input>>

SameArrayNext == IsSameStringArrayCall

SameArraySpec == SameArrayInit /\ [][SameArrayNext]_vars

(***************************************************************************)
(* Claims about the Process lifecycle                                      *)
(***************************************************************************)
Managed(p) == p \in DOMAIN procs

StateOf(p) == IF Managed(p) THEN procs[p].state ELSE "none"

LifecycleTable ==
    {<<"Stopped", "Starting">>, <<"Exited", "Starting">>,
     <<"Fatal", "Starting">>,
     <<"Starting", "Running">>, <<"Starting", "Backoff">>,
     <<"Backoff", "Starting">>, <<"Backoff", "Fatal">>,
     <<"Running", "Exited">>, <<"Running", "Starting">>,
     <<"Running", "Stopping">>, <<"Starting", "Stopping">>,
     <<"Backoff", "Stopping">>,
     <<"Stopping", "Stopped">>}

\* C1: every change of a Process's state is one of the transitions of the
\* lifecycle table; no other transition occurs.
C1_TransitionsFollowTable ==
    [][\A p \in Names :
          (Managed(p) /\ p \in DOMAIN procs'
              /\ procs'[p].state # procs[p].state)
          => <<procs[p].state, procs'[p].state>> \in LifecycleTable]_vars

\* a Process that was started, stopped and had to be killed
C1_Witness ==
    \E p \in DOMAIN procs :
        procs[p].state = "Stopped" /\ procs[p].exitstatus = KilledStatus

\* C2: in every reachable state, pid > 0 if and only if the state is
\* Starting, Running or Stopping.
C2_PidIffLiveState ==
    \A p \in DOMAIN procs :
        (procs[p].pid > 0) <=>
            (procs[p].state \in {"Starting", "Running", "Stopping"})

\* C3: once stop() is accepted on a Process with a live child, the first
\* signal is the configured stopsignal, sent to -pid when stopasgroup is set
\* and to pid otherwise; SIGKILL follows only from Stopping with the child
\* still alive after the stopsignal (to -pid when killasgroup); and the
\* Process reaches Stopped even if the child ignores the stopsignal.
C3_StopProtocol ==
    /\ [][\A p \in Names :
             (Managed(p) /\ p \in DOMAIN procs'
                 /\ Len(procs'[p].sigs) > Len(procs[p].sigs))
             => LET P == procs[p]
                    s == procs'[p].sigs[Len(procs'[p].sigs)]
                IN  /\ P.pid > 0
                    /\ Len(procs'[p].sigs) = Len(P.sigs) + 1
                    /\ IF P.sigs = <<>>
                       THEN /\ s.sig = P.config.stopsignal
                            /\ s.to = IF P.config.stopasgroup
                                      THEN -P.pid ELSE P.pid
                            /\ procs'[p].state = "Stopping"
                       ELSE /\ s.sig = "KILL"
                            /\ s.to = IF P.config.killasgroup
                                      THEN -P.pid ELSE P.pid
                            /\ P.state = "Stopping"
                            /\ Len(P.sigs) = 1]_vars
    /\ \A p \in Names :
          (StateOf(p) = "Stopping" /\ procs[p].pid > 0)
              ~> (StateOf(p) = "Stopped")

\* a child group that ignored the stopsignal and was killed
C3_Witness ==
    \E p \in DOMAIN procs :
        /\ procs[p].state = "Stopped"
        /\ procs[p].exitstatus = KilledStatus
        /\ Len(procs[p].sigs) = 2
        /\ procs[p].sigs[1].to < 0
        /\ procs[p].sigs[2].to > 0

\* C4: a Process whose child always exits before startsecs moves only
\* between Starting and Backoff, leaves Backoff for Fatal exactly when its
\* restart count exceeds startretries, reaches Fatal, stays there until a
\* start(), and after its first start is Fatal with restart count
\* startretries + 1 (4 for startretries = 3).
C4_BackoffToFatal ==
    /\ [][\A p \in Names :
             (Managed(p) /\ procs'[p].state # procs[p].state)
             => /\ <<procs[p].state, procs'[p].state>> \in
                      {<<"Stopped", "Starting">>, <<"Fatal", "Starting">>,
                       <<"Starting", "Backoff">>, <<"Backoff", "Starting">>,
                       <<"Backoff", "Fatal">>}
                /\ (procs[p].state = "Backoff" =>
                      (procs'[p].state = "Fatal"
                          <=> procs[p].retry > procs[p].config.startretries))
                /\ (procs[p].state = "Fatal" =>
                      (reply'.op = "start" /\ reply'.res = "Ok"
                          /\ reply'.from = "Fatal"))]_vars
    /\ [](\A p \in Names :
             (StateOf(p) = "Fatal" /\ procs[p].starts = 1)
             => procs[p].retry = procs[p].config.startretries + 1)
    /\ \A p \in Names : (StateOf(p) = "Starting") ~> (StateOf(p) = "Fatal")

\* startretries = 3 ends in Fatal with restart count 4
C4_Witness ==
    \E p \in DOMAIN procs :
        /\ procs[p].state = "Fatal"
        /\ procs[p].config.startretries = 3
        /\ procs[p].retry = 4
        /\ procs[p].starts = 1

\* C5: the exit of the child of a Running Process leads to Exited when
\* autorestart is false, to Starting when it is true, and for "unexpected"
\* to Exited exactly when the exit status is in exitcodes; an exit while
\* Stopping leads to Stopped and an exit while Starting to Backoff.
C5_ExitClassification ==
    [][\A p \in Names :
          (Managed(p) /\ p \in DOMAIN procs'
              /\ procs[p].pid > 0 /\ procs'[p].pid = 0)
          => LET P == procs[p]
                 Q == procs'[p]
             IN  /\ P.state = "Running" /\ P.config.autorestart = "false"
                        => Q.state = "Exited"
                 /\ P.state = "Running" /\ P.config.autorestart = "true"
                        => Q.state = "Starting"
                 /\ P.state = "Running" /\ P.config.autorestart = "unexpected"
                        => (Q.state = "Exited"
                               <=> Q.exitstatus \in P.config.exitcodes)
                           /\ Q.state \in {"Exited", "Starting"}
                 /\ P.state = "Stopping" => Q.state = "Stopped"
                 /\ P.state = "Starting" => Q.state = "Backoff"]_vars

\* an unexpected exit status restarted the program
C5_Witness ==
    \E p \in DOMAIN procs :
        /\ procs[p].config.autorestart = "unexpected"
        /\ procs[p].state = "Starting"
        /\ procs[p].exitstatus \in ExitStatuses \ procs[p].config.exitcodes

\* C6: start() on a Running Process answers AlreadyStarted and stop() on a
\* Stopped, Exited or Fatal Process answers NotRunning; neither changes the
\* state, pid, restart count, child or signals of any Process.
C6_RefusedCommandsChangeNothing ==
    [][\A p \in Names :
          (/\ reply' # reply
           /\ reply'.name = p
           /\ \/ reply'.op = "start" /\ StateOf(p) = "Running"
              \/ reply'.op = "stop"
                    /\ StateOf(p) \in {"Stopped", "Exited", "Fatal"})
          => /\ procs' = procs
             /\ reply'.res = IF reply'.op = "start"
                             THEN "AlreadyStarted" ELSE "NotRunning"]_vars

\* a start() refused on a Running Process
C6_Witness ==
    /\ reply.op = "start"
    /\ reply.res = "AlreadyStarted"
    /\ reply.from = "Running"
    /\ StateOf(reply.name) = "Running"

\* C7: a Process in Stopping absorbs further stop() calls: they change
\* nothing, the Process stays in Stopping while its child is alive, and the
\* only state it moves to is Stopped.
C7_StopIdempotent ==
    [][\A p \in Names :
          (Managed(p) /\ p \in DOMAIN procs' /\ procs[p].state = "Stopping")
          => /\ procs'[p].state \in {"Stopping", "Stopped"}
             /\ (procs'[p].pid > 0 => procs'[p].state = "Stopping")
             /\ (reply' # reply /\ reply'.op = "stop" /\ reply'.name = p)
                   => (procs' = procs /\ reply'.res = "Ok")]_vars

\* a stop() absorbed in Stopping, after which the Process stopped
C7_Witness ==
    /\ reply.op = "stop"
    /\ reply.from = "Stopping"
    /\ StateOf(reply.name) = "Stopped"

\* C8: whenever a Process enters Running from Starting its restart count is
\* 0 in the resulting state.
C8_RunningResetsRetry ==
    [][\A p \in Names :
          (Managed(p) /\ p \in DOMAIN procs'
              /\ procs[p].state = "Starting" /\ procs'[p].state = "Running")
          => procs'[p].retry = 0]_vars

\* Running with count 0 after a failed attempt (a Backoff cycle)
C8_Witness ==
    \E p \in DOMAIN procs :
        /\ procs[p].state = "Running"
        /\ procs[p].retry = 0
        /\ reply.res = "SpawnError"
        /\ reply.name = p


(***************************************************************************)
(* Claims about the Manager's bulk operations                              *)
(***************************************************************************)
\* the program entry of a name in the current Config
EntryOf(p) == config.entries[p]

\* p goes before q in priority order (ties by name)
Before(p, q) == ProgramLess(EntryOf(p), EntryOf(q))

ProgramsIn(c) ==
    {GetProgramName(c.entries[k]) : k \in {j \in DOMAIN c.entries :
                                              IsProgram(c.entries[j])}}

\* the names in both Configs whose entries differ
DifferingPrograms(c0, c1) ==
    {n \in ProgramsIn(c0) \cap ProgramsIn(c1) :
        GetProgram(c0, n) # GetProgram(c1, n)}

\* C10: the triple a Reload returns is exact and pairwise disjoint: added is
\* the names only in the new Config, removed the names only in the previous
\* one, changed the names in both whose entries differ.
C10_ReloadDiffExact ==
    result.returned =>
        /\ SeqToSet(result.added) = ProgramsIn(reload.new) \ ProgramsIn(reload.prev)
        /\ SeqToSet(result.removed) = ProgramsIn(reload.prev) \ ProgramsIn(reload.new)
        /\ SeqToSet(result.changed) = DifferingPrograms(reload.prev, reload.new)
        /\ SeqToSet(result.added) \cap SeqToSet(result.changed) = {}
        /\ SeqToSet(result.added) \cap SeqToSet(result.removed) = {}
        /\ SeqToSet(result.changed) \cap SeqToSet(result.removed) = {}

\* C11: a Reload whose freshly loaded Config equals the Config in memory
\* computes empty added, changed and removed lists, so that it has no Process
\* to stop, to remove or to start, and returns the three lists empty.
C11_IdenticalReloadIsEmpty ==
    (reload.prev = reload.new /\ (reload.active \/ result.returned)) =>
        /\ reload.added = <<>>
        /\ reload.changed = <<>>
        /\ reload.removed = <<>>
        /\ Outgoing = {}
        /\ Incoming = {}
        /\ result.returned =>
              result.added = <<>> /\ result.changed = <<>> /\ result.removed = <<>>

\* C12: whenever no Reload is in progress the Manager holds a Process for
\* exactly the program names of the current Config, each created from the
\* entry the current Config has for it.
C12_OneProcessPerProgram ==
    ~reload.active =>
        /\ DOMAIN procs = ProgramsIn(config)
        /\ \A p \in DOMAIN procs : {procs[p].entry} = GetProgram(config, p)

\* {a, b} was reloaded into {a with another command, c}: a is a new Process
\* with the new command, b is gone, c is there
C12_Witness ==
    /\ result.returned
    /\ ProgramsIn(reload.prev) = {ProgA, ProgB}
    /\ ProgramsIn(reload.new) = {ProgA, ProgC}
    /\ GetProgram(reload.prev, ProgA) # GetProgram(reload.new, ProgA)
    /\ DOMAIN procs = {ProgA, ProgC}
    /\ {procs[ProgA].entry} = GetProgram(reload.new, ProgA)
    /\ procs[ProgA].entry.keyValues[KeyCommand] = <<"y">>
    /\ procs[ProgA].state = "Running"
    /\ procs[ProgC].state = "Running"

\* C13: a Reload invoked while another Reload is in progress is answered
\* IncorrectState (the REST body says success = false) and changes neither
\* the Config nor the managed Processes nor the Reload in progress; the
\* Configs and the diff of a Reload in progress are never replaced.
C13_ReloadSerialized ==
    [][/\ (reload.active /\ reload'.active /\ reply'.op = "reload"
              /\ reply' # reply) =>
            /\ reply'.res = "IncorrectState"
            /\ ~RestfulReloadBody(reply'.res).success
            /\ config' = config
            /\ procs' = procs
            /\ workers' = workers
            /\ reload' = reload
       /\ reload.active =>
            [reload' EXCEPT !.active = TRUE] = reload]_vars

\* a second Reload was rejected while the first waits for a child to stop
C13_Witness ==
    /\ reload.active
    /\ reply.op = "reload"
    /\ reply.res = "IncorrectState"
    /\ \E p \in DOMAIN procs : p \in Outgoing /\ procs[p].state = "Stopping"

\* C14: a Reload whose files cannot be loaded has an error reported by Load,
\* runs no further, and leaves the Config in memory (entries and program to
\* group mapping) and the names of the managed Processes as they were.
C14_FailedLoadPreservesConfig ==
    reload.loadFailed =>
        /\ reload.err # "nil"
        /\ ~reload.active
        /\ config = reload.prev
        /\ DOMAIN procs = ProgramsIn(reload.prev)

(***************************************************************************)
(* Claims about Config.Load                                                *)
(***************************************************************************)
\* Load has returned
Loaded == output.fn = "Load"

\* the sections of the file that was loaded
SectionsIn == input.file.sections

\* an entry expanded from a program or an event-listener section
IsExpanded(entry) ==
    HasPrefix(entry.Name, ProgramPrefix) \/ HasPrefix(entry.Name, EventListenerPrefix)

\* the name of an expanded entry, without the prefix
ExpandedName(entry) ==
    SubSeq(entry.Name, Len(SectionPrefix(entry.Name)) + 1, Len(entry.Name))

\* the expanded entries of a Config
ExpandedEntries(c) == {c.entries[k] : k \in {n \in DOMAIN c.entries : IsExpanded(c.entries[n])}}

\* C15: the names Load returns are pairwise distinct and each of them is the
\* name of exactly one program or event-listener entry of the Config.
C15_LoadedNamesUnique ==
    Loaded =>
        LET names == output.loadedPrograms IN
        /\ \A i, j \in 1..Len(names) : i # j => names[i] # names[j]
        /\ \A i \in 1..Len(names) :
              Cardinality({e \in ExpandedEntries(config) :
                              ExpandedName(e) = names[i]}) = 1

\* the file that was loaded, without its section [program:a]
WithoutA ==
    [input.file EXCEPT !.sections =
        [n \in DOMAIN SectionsIn \ {SectionA} |-> SectionsIn[n]]]

\* the section order of the load, without [program:a]
NamesWithoutA == SelectSeq(input.names, LAMBDA n : n # SectionA)

\* [program:a] asks for several instances under a name that does not tell
\* them apart
UnnumberedInstances ==
    /\ SectionNumProcs([Name |-> SectionA, keys |-> SectionsIn[SectionA]]) > 1
    /\ \/ KeyProcessName \notin DOMAIN SectionsIn[SectionA]
       \/ ~StringContains(SectionsIn[SectionA][KeyProcessName], <<"%", "(", "p", "r", "o", "c", "e", "s", "s", "_", "n", "u", "m", ")">>)

\* [program:a] asks for one instance under a name without %(process_num)
SingleUnnumbered ==
    /\ SectionNumProcs([Name |-> SectionA, keys |-> SectionsIn[SectionA]]) = 1
    /\ KeyProcessName \in DOMAIN SectionsIn[SectionA]
    /\ SectionsIn[SectionA][KeyProcessName] = PlainName

\* C16: numprocs > 1 with a process_name that is missing or lacks
\* %(process_num) makes Load fail and create no entry for the program;
\* numprocs = 1 with a process_name lacking %(process_num) is accepted.
C16_UnnumberedInstancesRejected ==
    Loaded =>
        /\ UnnumberedInstances =>
              /\ output.err # "nil"
              /\ ExpandedEntries(config) \subseteq
                    ExpandedEntries(Load(NewConfig, WithoutA, NamesWithoutA).config)
        /\ SingleUnnumbered =>
              /\ output.err = "nil"
              /\ Contains(output.loadedPrograms, PlainName)
              /\ PlainName \in DOMAIN config.entries

\* the number of instances [program:a] asks for under numbered names, 0 when
\* it does not
NumberedInstances ==
    IF /\ KeyProcessName \in DOMAIN SectionsIn[SectionA]
       /\ SectionsIn[SectionA][KeyProcessName] = NumberedName
    THEN IF KeyNumprocs \in DOMAIN SectionsIn[SectionA]
         THEN CHOOSE n \in 1..MaxNumProcs :
                  Itoa(n) = SectionsIn[SectionA][KeyNumprocs]
         ELSE 1
    ELSE 0

\* the name of instance i of [program:a]
InstanceName(i) == <<"w">> \o Itoa(i)

\* the original template under key of [program:a] evaluated for instance i
InstanceValue(key, i) ==
    Eval(createProcessEnvironment(config, <<"a">>, i,
                                  [Name |-> SectionA, keys |-> SectionsIn[SectionA]]),
         SectionsIn[SectionA][key]).s

\* C17: numprocs = N with a process_name containing %(process_num) expands
\* into exactly N entries, the i-th with process_num i and the process_name
\* and command evaluated from the original templates for i.
C17_NumprocsExpands ==
    (Loaded /\ NumberedInstances > 0) =>
        LET N == NumberedInstances
            ofA == {InstanceName(i) : i \in 1..N}
        IN  /\ SelectSeq(output.loadedPrograms, LAMBDA n : n \in ofA)
                  = [i \in 1..N |-> InstanceName(i)]
            /\ {n \in DOMAIN config.entries : IsProgram(config.entries[n])}
                  \ {<<"b">>, PlainName} = ofA
            /\ \A i \in 1..N :
                  LET kv == config.entries[InstanceName(i)].keyValues IN
                  /\ kv[KeyProcessNum] = Itoa(i)
                  /\ kv[KeyProcessName] = InstanceName(i)
                  /\ kv[KeyProcessName] = InstanceValue(KeyProcessName, i)
                  /\ kv[KeyCommand] = InstanceValue(KeyCommand, i)
                  /\ \A j \in 1..N : j # i =>
                        kv[KeyProcessName] #
                            config.entries[InstanceName(j)].keyValues[KeyProcessName]

\* two instances were expanded from a templated command
C17_Witness ==
    /\ Loaded
    /\ NumberedInstances = 2
    /\ config.entries[InstanceName(1)].keyValues[KeyCommand] = <<"r", "u", "n", " ", "1">>
    /\ config.entries[InstanceName(2)].keyValues[KeyCommand] = <<"r", "u", "n", " ", "2">>

\* the entry carries what the section sn of the file defines, and the
\* defaults for what it does not
InheritsFrom(entry, sn) ==
    LET own == SectionsIn[sn]
        defaults == SectionsIn[ProgramDefaultName]
    IN  /\ SectionPrefix(sn) = SectionPrefix(entry.Name)
        /\ \A k \in DOMAIN own \ {KeyCommand, KeyProcessName} :
              k \in DOMAIN entry.keyValues /\ entry.keyValues[k] = TrimSpace(own[k])
        /\ \A k \in DOMAIN defaults \ DOMAIN own :
              k \in DOMAIN entry.keyValues /\ entry.keyValues[k] = TrimSpace(defaults[k])

\* C18: every program and event-listener entry has each key of
\* [program-default] its section does not define, with the default's value,
\* and its own value for every key its section defines.
C18_DefaultsInherited ==
    (Loaded /\ ProgramDefaultName \in DOMAIN SectionsIn) =>
        \A e \in ExpandedEntries(config) :
            \E sn \in DOMAIN SectionsIn : InheritsFrom(e, sn)

(***************************************************************************)
(* Claims about StringExpression.Eval                                      *)
(***************************************************************************)
\* what a piece stands for: a text for itself, %(var)s for the value of var,
\* %(var)d for the value as a decimal number, at least two digits wide and
\* filled with zeros under the verb 02d
Substituted(env, piece) ==
    IF IsText(piece) THEN piece.text
    ELSE IF piece.verb = <<"s">> THEN env[piece.name]
    ELSE IF piece.verb = <<"0", "2", "d">> /\ Atoi(env[piece.name]) \in 0..9
    THEN <<"0">> \o Itoa(Atoi(env[piece.name]))
    ELSE Itoa(Atoi(env[piece.name]))

RECURSIVE SubstitutedAll(_, _)
SubstitutedAll(env, pieces) ==
    IF pieces = <<>> THEN <<>>
    ELSE Substituted(env, Head(pieces)) \o SubstitutedAll(env, Tail(pieces))

\* C19: Eval returns the string with every %(var)s replaced by the value of
\* var and every %(var)d, or %(var)02d, by that value formatted as an
\* integer, the rest unchanged; '/bin/echo %(ENV_HOME)s/%(process_num)d'
\* with HOME=/root and process_num=3 gives '/bin/echo /root/3'.
C19_EvalSubstitutes ==
    output.fn = "Eval" =>
        /\ output.err = "nil"
        /\ output.s = SubstitutedAll(input.env, input.pieces)
        /\ (/\ input.s = <<"/", "b", "i", "n", "/", "e", "c", "h", "o", " ", "%", "(", "E", "N", "V", "_", "H", "O", "M", "E", ")", "s", "/", "%", "(", "p", "r", "o", "c", "e", "s", "s", "_", "n", "u", "m", ")", "d">>
            /\ input.env[KeyProcessNum] = <<"3">>)
              => output.s = <<"/", "b", "i", "n", "/", "e", "c", "h", "o", " ", "/", "r", "o", "o", "t", "/", "3">>

(***************************************************************************)
(* Claims about the templated accessors                                    *)
(***************************************************************************)
\* the group the program a belongs to: the group that lists it, its own
\* name when none does
GroupOfA ==
    IF SectionG \in DOMAIN SectionsIn /\ SectionsIn[SectionG][KeyPrograms] = <<"a">>
    THEN <<"g">> ELSE <<"a">>

\* the value of a process-scoped name for the single instance of program a
ScopedValue(name) ==
    CASE name = KeyProgramName -> <<"a">>
      [] name = KeyProcessNum -> <<"1">>
      [] name = KeyGroupName -> GroupOfA
      [] name = KeyHere -> ConfigFileDir
      [] name = KeyHostNodeName -> Hostname

\* the template of the file with its name replaced by the name's value
ScopedResult == ScopedValue(input.file.name) \o input.file.suffix

\* C20: for a program entry every templated accessor (the expansion of
\* command at load, the environment and envFiles lists, GetString,
\* GetStringExpression) evaluates with program_name, process_num, group_name,
\* here and host_node_name defined, group_name being the program's group in
\* each of them.
C20_AccessorsShareEnvironment ==
    /\ output.fn = "Load" =>
          AccessorEntry.keyValues[KeyCommand] = ScopedResult
    /\ output.fn \in {"GetString", "GetStringExpression"} =>
          output.value = ScopedResult
    /\ output.fn \in {"GetEnv", "GetEnvFromFiles"} =>
          output.value = <<<<"V", "=">> \o ScopedResult>>

(***************************************************************************)
(* Claims about templates that fail                                        *)
(***************************************************************************)
\* the error Eval has for the template the file gives under key
TemplateError(key) == input.file.kinds[key]

\* C21: a template with an unknown variable, with %(var)d on a non-integer
\* or malformed is not silently accepted: the accessor reading the key fails
\* with the typed error, and a Load whose command template fails reports an
\* error.
C21_BadTemplateFails ==
    /\ (output.fn = "Load" /\ TemplateError(KeyCommand) # "nil") =>
          output.err # "nil"
    /\ (output.fn = "GetString" /\ TemplateError(KeyDirectory) # "nil") =>
          output.err = TemplateError(KeyDirectory)
    /\ (output.fn = "GetStringExpression"
            /\ TemplateError(KeyStdoutLogfile) # "nil") =>
          output.err = TemplateError(KeyStdoutLogfile)

(***************************************************************************)
(* Claims about the byte-size parser                                       *)
(***************************************************************************)
\* C22: GetBytes returns n for 'n', n*1024 for 'nKB', n*1024^2 for 'nMB' and
\* n*1024^3 for 'nGB', and the caller's default when the key is absent or
\* the numeric part is not an integer; '1024', '1KB', '1MB' and '1GB' give
\* 1024, 1024, 1048576 and 1073741824.
C22_GetBytesScales ==
    output.fn = "GetBytes" =>
        /\ ~input.present => output.value = input.defValue
        /\ (input.present /\ input.size.factor = 0) =>
              output.value = input.defValue
        /\ (input.present /\ input.size.factor # 0) =>
              output.value = input.size.n * input.size.factor
        /\ input.keyValues = (KeyMaxBytes :> <<"1", "0", "2", "4">>) => output.value = 1024
        /\ input.keyValues = (KeyMaxBytes :> <<"1", "K", "B">>) => output.value = 1024
        /\ input.keyValues = (KeyMaxBytes :> <<"1", "M", "B">>) => output.value = 1048576
        /\ input.keyValues = (KeyMaxBytes :> <<"1", "G", "B">>) => output.value = 1073741824

\* 1GB was read with a default of 50MB
C22_Witness ==
    /\ output.fn = "GetBytes"
    /\ input.keyValues = (KeyMaxBytes :> <<"1", "G", "B">>)
    /\ input.defValue = 52428800
    /\ output.value = 1073741824

(***************************************************************************)
(* Claims about the groups of the programs                                 *)
(***************************************************************************)
\* the names of the entries the section [program:p] of the file expands to
InstanceNamesOf(p) ==
    LET keys == SectionsIn[ProgramPrefix \o p] IN
    IF KeyProcessName \notin DOMAIN keys THEN {p}
    ELSE IF keys[KeyProcessName] = NumberedName
    THEN {InstanceName(i) : i \in 1..NumberedInstances}
    ELSE {keys[KeyProcessName]}

\* the programs the [group:g] section of the file lists
ListedInG ==
    IF SectionG \notin DOMAIN SectionsIn THEN {}
    ELSE IF SectionsIn[SectionG][KeyPrograms] = <<"a">> THEN {<<"a">>}
    ELSE {<<"a">>, <<"b">>}

\* the group of the program p: the one that lists it, its own name otherwise
GroupOfProgram(p) == IF p \in ListedInG THEN <<"g">> ELSE p

\* the programs of the file
ProgramsOfFile ==
    {p \in {<<"a">>, <<"b">>} : (ProgramPrefix \o p) \in DOMAIN SectionsIn}

OtherForm(n) ==
    IF HasPrefix(n, <<"S", "I", "G">>) THEN SubSeq(n, 4, Len(n)) ELSE <<"S", "I", "G">> \o n

\* C24: a signal name that is not in the table resolves to a BadSignal error
\* and no signal is sent; a name with and without the prefix SIG resolves to
\* the same signal.
C24_UnknownSignalRefused ==
    output.fn = "ToSignal" =>
        /\ ~input.known =>
              /\ output.err = "BadSignal"
              /\ called = <<>>
              /\ reply # NoReply => reply.res = "BadSignal"
        /\ input.known =>
              /\ output.err = "nil"
              /\ output.sig = ToSignal(OtherForm(input.signalName)).sig

(***************************************************************************)
(* Claims about the exit of the supervisor                                 *)
(***************************************************************************)
\* C25: the supervisor exits with status 0 on every clean shutdown (the
\* operator's shutdown, or a termination signal after which the children
\* were stopped) and with status 1 when its initialization fails.
C25_ExitCodes ==
    (output.fn = "main" /\ output.pc = "exited") =>
        /\ output.cause \in {"shutdown", "SIGINT", "SIGTERM"} =>
              /\ output.code = 0
              /\ \A p \in DOMAIN procs : procs[p].state = "Stopped"
        /\ output.cause = "init" => output.code = 1

(***************************************************************************)
(* Claims about the search for the configuration file                      *)
(***************************************************************************)
C26_Sequence ==
    << RelPath(<<".", "supervisord.ini">>),
       RelPath(<<".", "etc", "supervisord.conf">>),
       AbsPath(<<"etc", "supervisord.conf">>),
       AbsPath(<<"etc", "supervisor", "supervisord.conf">>),
       RelPath(<<"..", "etc", "supervisord.conf">>),
       RelPath(<<"..", "supervisord.conf">>),
       RelPath(<<".", "supervisord.conf">>) >>

C26_Existing == {i \in 1..7 : Stat(input, C26_Sequence[i])}

C26_First == CHOOSE i \in C26_Existing : \A j \in C26_Existing : i <= j

C27_Credentials ==
    /\ input.r.ok
    /\ input.r.username = input.h.user
    /\ \/ input.r.password = input.h.password
       \/ /\ Len(input.h.password) >= 5
          /\ SubSeq(input.h.password, 1, 5) = <<"{", "S", "H", "A", "}">>
          /\ Sha1Hex(input.r.password) =
                SubSeq(input.h.password, 6, Len(input.h.password))

\* C27: with a user and a password configured, a request reaches the wrapped
\* handler only if it carries basic credentials with the configured user and
\* a password that equals the configured one or whose SHA-1 hex digest is the
\* one of a {SHA} password; every other request is answered 401 and the
\* handler is not called.
C27_BasicAuth ==
    (input.fn = "ServeHTTP" /\ output # NoCall
        /\ input.h.user # <<>> /\ input.h.password # <<>>) =>
        /\ output.handled => C27_Credentials
        /\ ~C27_Credentials =>
              ~output.handled /\ output.wrote = <<StatusUnauthorized>>

\* a request with the right password and another user has been refused
C27_Witness ==
    /\ input.fn = "ServeHTTP"
    /\ output # NoCall
    /\ input.h.user # <<>>
    /\ input.h.password # <<>>
    /\ input.r.ok
    /\ input.r.username # input.h.user
    /\ Len(input.h.password) > 5
    /\ Sha1Hex(input.r.password) = SubSeq(input.h.password, 6, Len(input.h.password))
    /\ ~output.handled

(***************************************************************************)
(* Claims about the loggers                                                *)
(***************************************************************************)
\* the result the first logger gives for the payload that was written last
C28_FirstResult ==
    IF output.loggers[1].fails /\ output.loggers[1].kind # "null"
    THEN output.last.n = 0 /\ output.last.err # NilError
    ELSE /\ output.last.n = Len(output.writes[Len(output.writes)])
         /\ output.last.err = NilError

\* C28: a logger built from a comma-separated list hands every payload of
\* Write to each of its targets, whether or not another target fails; ReadLog,
\* ReadTailLog and the clear operations are served by the first target only,
\* and the result of Write is the first target's.
C28_CompositeForwards ==
    LoggerBuilt =>
        /\ \A i \in DOMAIN output.loggers :
              /\ output.loggers[i].received = output.writes
              /\ i > 1 => ~output.loggers[i].cleared
        /\ output.last.op = "Write" => C28_FirstResult
        /\ output.last.op = "ReadLog" =>
              /\ output.last.s =
                    LoggerReadLog(output.loggers[1], output.last.offset,
                                  output.last.length).s
              /\ (output.last.err = NilError) <=> (output.loggers[1].kind = "file")
        /\ output.last.op = "ReadTailLog" =>
              /\ output.last.s = LoggerReadTailLog(output.loggers[1], 0, 2).s
              /\ (output.last.err = NilError) <=> (output.loggers[1].kind = "file")
        /\ output.last.op \in {"ClearCurLogFile", "ClearAllLogFile"} =>
              output.loggers[1].cleared

\* the first of several targets fails, and the payloads went on to the others
C28_Witness ==
    /\ LoggerBuilt
    /\ Len(output.loggers) >= 2
    /\ output.loggers[1].fails
    /\ output.loggers[1].kind = "file"
    /\ output.last.op = "Write"
    /\ output.last.err # NilError
    /\ Len(output.loggers[2].received) >= 2

\* the file loggers of the state
C29_FileLoggers ==
    IF output.fn = "NewLogger"
    THEN {output.loggers[i] : i \in {j \in DOMAIN output.loggers :
                                        output.loggers[j].kind = "file"}}
    ELSE IF output.fn = "createLogger" /\ output.logger.kind = "file"
    THEN {output.logger}
    ELSE {}

C29_Rotated(l) == l.fails \/ Len(l.fs[0]) < l.maxSize

C29_AtMostBackups(l) == (DOMAIN l.fs) \ {0} \subseteq 1..l.backups

\* C29: a file logger with maxbytes M and backups B has rotated its file once
\* the size reached M and keeps at most B numbered siblings, for every
\* B >= 0; ClearAllLogFile removes every numbered sibling.
C29_RotationKeepsBackups ==
    \A l \in C29_FileLoggers :
        /\ C29_AtMostBackups(l)
        /\ (output.fn = "NewLogger" /\ output.last.op = "Write") => C29_Rotated(l)
        /\ (output.fn = "NewLogger" /\ output.last.op = "ClearAllLogFile"
              /\ l = output.loggers[1]) => DOMAIN l.fs = {0}

\* the same for loggers that keep at least one backup
C29_RotationWithBackups ==
    \A l \in C29_FileLoggers :
        l.backups >= 1 =>
            /\ C29_AtMostBackups(l)
            /\ (output.fn = "NewLogger" /\ output.last.op = "Write") => C29_Rotated(l)
            /\ (output.fn = "NewLogger" /\ output.last.op = "ClearAllLogFile"
                  /\ l = output.loggers[1]) => DOMAIN l.fs = {0}

\* the kind of logger the log-file strings stand for
C30_Kind(logFile) ==
    IF logFile = <<"/", "d", "e", "v", "/", "s", "t", "d", "o", "u", "t">> THEN {"stdout"}
    ELSE IF logFile = <<"/", "d", "e", "v", "/", "s", "t", "d", "e", "r", "r">> THEN {"stderr"}
    ELSE IF logFile = <<"/", "d", "e", "v", "/", "n", "u", "l", "l">> THEN {"null"}
    ELSE IF logFile = <<"s", "y", "s", "l", "o", "g">> THEN {"syslog"}
    ELSE IF logFile = <<"s", "y", "s", "l", "o", "g", "@", "h", ":", "1">> THEN {"remote syslog"}
    ELSE IF logFile = <<>> THEN {"null"}
    ELSE IF logFile \in {<<"s", "y", "s", "l", "o", "g", " ", "@", " ", "h", ":", "1">>, <<"s", "y", "s", "l", "o", "g", "@", "h", "@", "1">>}
    THEN {"remote syslog", "file"}
    ELSE {"file"}

\* C30: createLogger returns a logger for every log-file string and never
\* panics: the special names give the special loggers, the empty string the
\* null logger, and every other string, a path that begins with syslog
\* included, a file logger.
C30_createLoggerTotal ==
    output.fn = "createLogger" =>
        /\ output.logger.kind # "panic"
        /\ output.logger.kind \in C30_Kind(input.logFile)

\* the same for the strings that do not begin with syslog or that hold an @
C30_createLoggerOthers ==
    (output.fn = "createLogger"
        /\ (HasPrefix(input.logFile, <<"s", "y", "s", "l", "o", "g">>) => StringContains(input.logFile, <<"@">>))) =>
        /\ output.logger.kind # "panic"
        /\ output.logger.kind \in C30_Kind(input.logFile)

(***************************************************************************)
(* Claims about the signal handlers of the supervisor                      *)
(***************************************************************************)
\* C31: after SIGINT or SIGTERM the supervisor exits only when
\* StopAllProcesses of the active Supervisor has completed, also after the
\* server loop has started over and installed further handlers.
C31_ExitAfterStopAll ==
    (output.fn = "initSignals" /\ output.exitedBy # 0) =>
        /\ output.handlers[ActiveSupervisor] = "os.Exit"
        /\ \A p \in DOMAIN procs : procs[p].state = "Stopped"

\* the same when the server loop has not started over
C31_ExitAfterStopAllFirstTurn ==
    (output.fn = "initSignals" /\ output.exitedBy # 0 /\ ActiveSupervisor = 1) =>
        /\ output.handlers[ActiveSupervisor] = "os.Exit"
        /\ \A p \in DOMAIN procs : procs[p].state = "Stopped"

(***************************************************************************)
(* Claims about the termination of Eval                                    *)
(***************************************************************************)
\* C32: Eval returns, with a string or with an error, for every input string
\* and every environment, also when the value of a variable holds a
\* placeholder itself.
C32_EvalReturns == <>(output.fn = "Eval" /\ output.returned)

\* the values of the environment that hold no placeholder
C32_PlainEnv ==
    \A k \in DOMAIN input.env : ~StringContains(input.env[k], <<"%", "(">>)

\* the same for environments without placeholders in their values
C32_EvalReturnsPlain == C32_PlainEnv => <>(output.fn = "Eval" /\ output.returned)

(***************************************************************************)
(* Claims about loading a Config again                                     *)
(***************************************************************************)
\* the keys parseProgram adds to every section
C33_ExpansionKeys ==
    {KeyCommand, KeyProcessName, KeyNumprocsStart, KeyProcessNum}

\* the keys of [program:a] and of [program-default] in the file loaded last
C33_FileKeys ==
    DOMAIN input.next.sections[SectionA]
    \cup (IF ProgramDefaultName \in DOMAIN input.next.sections
          THEN DOMAIN input.next.sections[ProgramDefaultName] ELSE {})

\* the keys that were in the file of the first call only
C33_DeletedKeys ==
    (DOMAIN input.file.sections[SectionA]) \ (C33_FileKeys \cup C33_ExpansionKeys)

\* C33: after Load is called again on the same Config, the key/value map of a
\* program entry has the keys of its section in the files just loaded (with
\* the inherited defaults and the expansion keys); a key deleted between the
\* two calls is gone from the entry, and the serialization of the entry
\* differs from the one before.
C33_LoadAgainFollowsFile ==
    output.fn = "LoadAgain" =>
        /\ DOMAIN config.entries[<<"a">>].keyValues = C33_FileKeys \cup C33_ExpansionKeys
        /\ \A k \in DOMAIN input.next.sections[SectionA] :
              config.entries[<<"a">>].keyValues[k] = input.next.sections[SectionA][k]
        /\ C33_DeletedKeys # {} =>
              String(config.entries[<<"a">>]) \cap String(output.before) = {}

\* the same for files that lose no key between the two calls
C33_LoadAgainKeepsKeys ==
    (output.fn = "LoadAgain" /\ C33_DeletedKeys = {}) =>
        /\ DOMAIN config.entries[<<"a">>].keyValues = C33_FileKeys \cup C33_ExpansionKeys
        /\ \A k \in DOMAIN input.next.sections[SectionA] :
              config.entries[<<"a">>].keyValues[k] = input.next.sections[SectionA][k]

\* the first call alone
C33_FirstLoadFollowsFile ==
    output.fn = "Load" =>
        DOMAIN config.entries[<<"a">>].keyValues =
            DOMAIN input.file.sections[SectionA]
            \cup (IF ProgramDefaultName \in DOMAIN input.file.sections
                  THEN DOMAIN input.file.sections[ProgramDefaultName] ELSE {})
            \cup C33_ExpansionKeys

(***************************************************************************)
(* Claims about the routes of the HTTP server                              *)
(***************************************************************************)
\* a user and a password are configured and the request has not both
C34_Unauthenticated ==
    /\ input.h.user # <<>>
    /\ input.h.password # <<>>
    /\ ~(input.r.ok /\ input.r.username = input.h.user
            /\ input.r.password = input.h.password)

C34_WrappedRoutesGuarded ==
    (output.fn = "Serve" /\ C34_Unauthenticated
        /\ output.pattern \in {<<"/", "R", "P", "C", "2">>, <<"/", "p", "r", "o", "g", "r", "a", "m", "/">>, <<"/", "s", "u", "p", "e", "r", "v", "i", "s", "o", "r", "/">>,
                               <<"/", "l", "o", "g", "t", "a", "i", "l", "/">>, <<"/", "c", "o", "n", "f", "/">>, <<"/">>}) =>
        ~output.handled /\ output.wrote = <<StatusUnauthorized>>

(***************************************************************************)
(* Claims about the BackgroundWriteCloser                                  *)
(***************************************************************************)
\* C35: every payload whose Write returned before Close was called has been
\* written to the underlying writer when the underlying writer is closed,
\* however the goroutine and Close interleave.
C35_WrittenBeforeClose ==
    (output.fn = "BackgroundWriteCloser" /\ output.closed) =>
        output.written = output.returned

\* what holds instead: the payloads written are those returned, but for the
\* one the goroutine holds or could not write
C35_AllButTheLast ==
    (output.fn = "BackgroundWriteCloser") =>
        output.written \o output.failed
            \o (IF output.goroutine = "write" THEN <<output.b>> ELSE <<>>)
        = output.returned

(***************************************************************************)
(* Claims about ReadTailLog                                                *)
(***************************************************************************)
\* C36: ReadTailLog called again and again with a length above 0, from offset
\* 0 on and with the offset the call before returned, returns the bytes of a
\* growing file once each and in order: the chunks so far are the file up to
\* the offset, the offset is never beyond the end of the file, a call below
\* the end of the file returns at least one byte, and a negative offset or
\* length is refused with an error.
C36_TailReadsEachByteOnce ==
    output.fn = "ReadTailLog" =>
        /\ output.offset <= Len(output.l.fs[0])
        /\ output.chunks = SubSeq(output.l.fs[0], 1, output.offset)
        /\ (output.last.op = "ReadTailLog" /\ output.last.offset >= 0
              /\ output.last.length > 0) =>
              /\ output.last.err = NilError
              /\ output.last.newOffset <= output.last.fileLen
              /\ output.last.offset < output.last.fileLen =>
                    /\ Len(output.last.s) >= 1
                    /\ output.last.newOffset = output.last.offset + Len(output.last.s)
        /\ (output.last.op = "ReadTailLog"
              /\ (output.last.offset < 0 \/ output.last.length < 0)) =>
              /\ output.last.err # NilError
              /\ output.last.s = <<>>

\* the reader has got the whole file in three chunks or more, the file having
\* grown between the calls
C36_Witness ==
    /\ output.fn = "ReadTailLog"
    /\ output.grown >= 2
    /\ Len(output.l.fs[0]) >= 4
    /\ output.offset = Len(output.l.fs[0])
    /\ output.chunks = output.l.fs[0]
    /\ output.last.op = "ReadTailLog"
    /\ output.last.length > Len(output.last.s)
    /\ Len(output.last.s) >= 1

(***************************************************************************)
(* Claims about ReadLog                                                    *)
(***************************************************************************)
C37_File == input.fs[0]

\* the bytes of the file from index from (counted from 0) on, at most count
C37_Range(from, count) ==
    [i \in 1..(IF from + count > Len(C37_File) THEN Len(C37_File) - from ELSE count)
        |-> C37_File[from + i]]

C37_Rejected ==
    \/ input.offset < 0 /\ input.length # 0
    \/ input.offset >= 0 /\ input.length < 0

\* C37: ReadLog answers BadArguments for exactly the pairs (offset < 0,
\* length # 0) and (offset >= 0, length < 0); for the other pairs it returns
\* the last -offset bytes (the whole file if there are fewer) when offset < 0,
\* the bytes from offset to the end when length = 0, and the
\* min(length, fileLen - offset) bytes from offset otherwise, the empty string
\* when offset is past the end.
C37_ReadLogRanges ==
    (input.fn = "ReadLog" /\ output # NoCall) =>
        /\ (output.err = <<"BAD_ARGUMENTS">>) <=> C37_Rejected
        /\ C37_Rejected => output.s = <<>>
        /\ (~C37_Rejected /\ 0 \in DOMAIN input.fs) =>
              /\ output.err = NilError
              /\ output.s =
                    IF input.offset < 0
                    THEN IF -input.offset > Len(C37_File) THEN C37_File
                         ELSE C37_Range(Len(C37_File) + input.offset, -input.offset)
                    ELSE IF input.offset >= Len(C37_File) THEN <<>>
                    ELSE IF input.length = 0
                    THEN C37_Range(input.offset, Len(C37_File) - input.offset)
                    ELSE C37_Range(input.offset, input.length)

\* the last two bytes of a longer file were asked for and returned
C37_Witness ==
    /\ input.fn = "ReadLog"
    /\ output # NoCall
    /\ 0 \in DOMAIN input.fs
    /\ input.offset = -2
    /\ input.length = 0
    /\ Len(C37_File) = 5
    /\ output.s = <<"d", "e">>

(***************************************************************************)
(* Claims about the resource limits                                        *)
(***************************************************************************)
C38_Positive(value) == value # <<>> /\ Head(value) # "-"

C38_BothSet ==
    /\ input.fn = "checkRequiredResources"
    /\ output # NoCall
    /\ input.section
    /\ C38_Positive(input.minfds)
    /\ C38_Positive(input.minprocs)

\* C38: when minfds and minprocs are both set to positive values,
\* checkRequiredResources returns an error if the hard NOFILE limit is below
\* minfds or the hard NPROC limit is below minprocs.
C38_EveryMinimumChecked ==
    C38_BothSet =>
        ((\/ Atoi(input.minfds) > input.limits["RLIMIT_NOFILE"].Max
          \/ Atoi(input.minprocs) > input.limits["RLIMIT_NPROC"].Max)
            => output.err # "nil")

\* with both set, a minfds above the hard NOFILE limit is an error, and the
\* answer does not depend on minprocs or on the NPROC limit
C38_MinfdsChecked ==
    C38_BothSet =>
        /\ Atoi(input.minfds) > input.limits["RLIMIT_NOFILE"].Max
              => output.err = "LimitExceedsHard"
        /\ Atoi(input.minfds) <= input.limits["RLIMIT_NOFILE"].Cur
              => output.err = "nil"
        /\ output.limits["RLIMIT_NPROC"] = input.limits["RLIMIT_NPROC"]

\* with minprocs alone, a minprocs above the hard NPROC limit is an error
C38_MinprocsAlone ==
    (/\ input.fn = "checkRequiredResources"
     /\ output # NoCall
     /\ input.section
     /\ ~C38_Positive(input.minfds)
     /\ C38_Positive(input.minprocs)
     /\ Atoi(input.minprocs) > input.limits["RLIMIT_NPROC"].Max)
        => output.err = "LimitExceedsHard"

C39_Called == input.fn = "checkMinLimit" /\ output # NoCall

C39_For(resource) ==
    /\ \A r \in Resources \ {resource} : output.limits[r] = input.limits[r]
    /\ output.limits[resource].Max = input.limits[resource].Max
    /\ output.err = "nil" => output.limits[resource].Cur >= input.min
    /\ input.min > input.limits[resource].Max
          => output.err # "nil" /\ output.limits = input.limits

\* C39: checkMinLimit changes at most the soft limit of the resource it was
\* asked to check; when it returns nil that soft limit is at least the
\* required minimum; when the minimum exceeds the hard limit it returns an
\* error and changes no limit.
C39_OnlyTheSoftLimit == C39_Called => C39_For(input.resource)

\* the same for RLIMIT_NOFILE alone
C39_OnlyTheSoftLimitOfNofile ==
    (C39_Called /\ input.resource = "RLIMIT_NOFILE") => C39_For("RLIMIT_NOFILE")

\* asked about RLIMIT_NPROC, checkMinLimit leaves the NPROC limit as it was
C39_NprocNeverRaised ==
    (C39_Called /\ input.resource = "RLIMIT_NPROC")
        => output.limits["RLIMIT_NPROC"] = input.limits["RLIMIT_NPROC"]

(***************************************************************************)
(* Claims about IsSameStringArray                                          *)
(***************************************************************************)
C40_Called == input.fn = "IsSameStringArray" /\ output # NoCall

\* how many times e occurs in arr
C40_Count(arr, e) == Cardinality({i \in 1..Len(arr) : arr[i] = e})

C40_SameMultiset ==
    \A e \in ArrayStrings : C40_Count(input.arr1, e) = C40_Count(input.arr2, e)

C40_NoRepeats(arr) == \A e \in ArrayStrings : C40_Count(arr, e) <= 1

\* C40: IsSameStringArray(a, b) is true exactly when a and b hold the same
\* elements with the same multiplicities, in any order, lists with repeated
\* elements included.
C40_SameElements == C40_Called => (output.same <=> C40_SameMultiset)

\* the same when no element is repeated in the first list
C40_SameElementsNoRepeats ==
    (C40_Called /\ C40_NoRepeats(input.arr1))
        => (output.same <=> C40_SameMultiset)

\* on all lists: lists with the same elements and multiplicities are found
\* the same, and lists found the same have the same length and every element
\* of the first is in the second
C40_SameIsFound ==
    C40_Called =>
        /\ C40_SameMultiset => output.same
        /\ output.same =>
              /\ Len(input.arr1) = Len(input.arr2)
              /\ \A i \in 1..Len(input.arr1) :
                    \E j \in 1..Len(input.arr2) : input.arr1[i] = input.arr2[j]

====
